---- MODULE Spec2Model ----
(***************************************************************************)
(* PIcoOS: the four core tasks (systemTask, fsTask, audioTask, guiTask),   *)
(* the three peripheral mutexes, the fault channel and health snapshot of  *)
(* core/system.c, and the button callback, on a single core under the      *)
(* FreeRTOS fixed-priority preemptive scheduler.                           *)
(*                                                                         *)
(* uint32_t values are pairs <<hi, lo>> of 16-bit limbs, so that the       *)
(* arithmetic of the code is carried out modulo 2^32.                      *)
(***************************************************************************)
EXTENDS Integers, Sequences, FiniteSets, TLC

(***************************************************************************)
(* Bounds of the model.                                                    *)
(***************************************************************************)
\* number of tick interrupts explored after vTaskStartScheduler
MaxTick == 52
\* number of tick interrupts explored when only the Supervisor is left
MaxHealthTick == 2001
\* number of tick interrupts that may arrive while some task is still
\* runnable, i.e. while task code is executing
MaxBusyTicks == 1
\* number of physical button transitions explored
MaxTransitions == 4

\* ticks explored in the scenarios with an external caller or a service
\* call that does not return
MaxScenarioTick == 21

\* guarded sections the external caller enters in one run
MaxExtTakes == 1

\* button transitions delivered while the tasks run
MaxBridgeEvents == 2

\* music player: files populate_playlist can find (songList holds 20)
MaxSongs == 3

\* ticks explored after a health recomputation made shortly before the tick
\* counter wraps
MaxWrapRun == 1012

\* calls of system_set_error explored in one run
MaxReports == 2

(***************************************************************************)
(* 32-bit unsigned arithmetic.                                             *)
(***************************************************************************)
Limb == 65536

U32(n) == <<n \div Limb, n % Limb>>

U32Max == <<Limb - 1, Limb - 1>>

U32Add(a, b) ==
    LET lo == a[2] + b[2]
        hi == a[1] + b[1] + (lo \div Limb)
    IN  <<hi % Limb, lo % Limb>>

U32Sub(a, b) ==
    LET lo == a[2] - b[2]
        borrow == IF lo < 0 THEN 1 ELSE 0
        hi == a[1] - b[1] - borrow
    IN  <<(hi + 2 * Limb) % Limb, (lo + Limb) % Limb>>

U32Lt(a, b) == a[1] < b[1] \/ (a[1] = b[1] /\ a[2] < b[2])

U32Ge(a, b) == ~U32Lt(a, b)

\* a * k modulo 2^32 for a small multiplier k
U32MulSmall(a, k) ==
    LET lo == a[2] * k
        hi == a[1] * k + (lo \div Limb)
    IN  <<hi % Limb, lo % Limb>>

\* a / d for a small divisor d
U32DivSmall(a, d) ==
    LET qh == a[1] \div d
        rem == ((a[1] % d) * Limb) + a[2]
    IN  <<qh, rem \div d>>

RECURSIVE Pow2(_)
Pow2(n) == IF n = 0 THEN 1 ELSE 2 * Pow2(n - 1)

U32Bit(a, i) ==
    IF i >= 16 THEN (a[1] \div Pow2(i - 16)) % 2 ELSE (a[2] \div Pow2(i)) % 2

\* restoring division, one bit per step from bit i down to 0; r is the
\* running remainder (its high limb may hold 17 bits before the subtraction)
RECURSIVE U32DivStep(_, _, _, _, _)
U32DivStep(a, b, i, r, q) ==
    IF i < 0 THEN q
    ELSE LET lo == 2 * r[2] + U32Bit(a, i)
             sh == <<2 * r[1] + (lo \div Limb), lo % Limb>>
             ge == sh[1] > b[1] \/ (sh[1] = b[1] /\ sh[2] >= b[2])
             dl == sh[2] - b[2]
             df == <<sh[1] - b[1] - (IF dl < 0 THEN 1 ELSE 0), (dl + Limb) % Limb>>
             qb == IF i >= 16 THEN <<q[1] + Pow2(i - 16), q[2]>>
                              ELSE <<q[1], q[2] + Pow2(i)>>
         IN  IF ge THEN U32DivStep(a, b, i - 1, df, qb)
                   ELSE U32DivStep(a, b, i - 1, sh, q)

\* a / b for b # 0
U32Div(a, b) == U32DivStep(a, b, 31, <<0, 0>>, <<0, 0>>)

\* conversion of a uint32_t to uint8_t
U32ToU8(a) == a[2] % 256

(***************************************************************************)
(* Program constants.                                                      *)
(***************************************************************************)
OS_CONFIG_ENABLE_GUI == 1

SYSTEM_TASK_PRIORITY == 5
FS_TASK_PRIORITY == 4
AUDIO_TASK_PRIORITY == 3
GUI_TASK_PRIORITY == 2

SYSTEM_TICK_RATE_HZ == 1000

ERROR_NONE == 0
ERROR_FS_INIT_FAILED == 1
ERROR_FS_MOUNT_FAILED == 2
ERROR_DISPLAY_INIT_FAILED == 3
ERROR_AUDIO_INIT_FAILED == 4
ERROR_OUT_OF_MEMORY == 5
ERROR_HARDWARE_FAILURE == 6

ErrorCodes == ERROR_NONE .. ERROR_HARDWARE_FAILURE

PERFORMANCE_CHECK_INTERVAL == 1000

BUTTON_PRESSED == 0
BUTTON_RELEASED == 1
BUTTON_LONG_PRESS == 2

Tasks == {"SYS", "FS", "AUDIO", "GUI"}

Mutexes == {"sdCardMutex", "displayMutex", "audioMutex"}

\* variant: systemTask is created with the lowest priority
Priority_SysLowest ==
    [t \in Tasks |->
        CASE t = "SYS" -> GUI_TASK_PRIORITY - 1
          [] t = "FS" -> FS_TASK_PRIORITY
          [] t = "AUDIO" -> AUDIO_TASK_PRIORITY
          [] t = "GUI" -> GUI_TASK_PRIORITY]

\* priority given to each task by xTaskCreate
Priority ==
    [t \in Tasks |->
        CASE t = "SYS" -> SYSTEM_TASK_PRIORITY
          [] t = "FS" -> FS_TASK_PRIORITY
          [] t = "AUDIO" -> AUDIO_TASK_PRIORITY
          [] t = "GUI" -> GUI_TASK_PRIORITY]

\* argument of the vTaskDelay call that ends each loop iteration
Cadence ==
    [t \in Tasks |->
        CASE t = "SYS" -> 10
          [] t = "FS" -> 50
          [] t = "AUDIO" -> 5
          [] t = "GUI" -> 16]

\* variant: all three loops take sdCardMutex
OwnMutex_Shared == [t \in Tasks \ {"SYS"} |-> "sdCardMutex"]

\* the mutex each task takes around its service call
OwnMutex ==
    [t \in Tasks \ {"SYS"} |->
        CASE t = "FS" -> "sdCardMutex"
          [] t = "AUDIO" -> "audioMutex"
          [] t = "GUI" -> "displayMutex"]

\* the service call of each task's loop
ServiceCall ==
    [t \in Tasks |->
        CASE t = "SYS" -> "system_update"
          [] t = "FS" -> "fs_update"
          [] t = "AUDIO" -> "audio_update"
          [] t = "GUI" -> "gui_update"]

Functions ==
    {"gpio_init", "buttons_init", "system_init", "system_update",
     "calculate_cpu_usage", "memory_saving_mode", "system_set_error",
     "blink_error_led", "sd_card_init", "fs_init", "fs_update",
     "audio_init", "audio_update", "display_init", "gui_init", "gui_update"}

(***************************************************************************)
(* Values the environment supplies.                                        *)
(***************************************************************************)
\* outcome of the bring-up calls on this device: fs_init is reached only
\* with a working card, display_init only when the GUI task exists.  The
\* clock programming of initialize_clocks is a stub that reports success,
\* so on every device the firmware as built can run on the clock is good.
\* gui is the status gui_init returns (GUI_OK or an error), reached only
\* with a working display.
Hardware ==
    {h \in [clock : {TRUE}, sd : BOOLEAN, fs : BOOLEAN, audio : BOOLEAN,
            display : BOOLEAN, gui : BOOLEAN] :
        /\ (~h.sd => ~h.fs)
        /\ (~h.display => ~h.gui)}

\* the same devices with the clock programming failing: initialize_clocks
\* returns 0, the failure path that system_init provides for
ClockFailures == {[h EXCEPT !.clock = FALSE] : h \in Hardware}

\* systemTask passes an uninitialised SystemConfig to system_init: the
\* fields that system_update and system_set_error read are indeterminate
\* (cpuFrequency and enablePerformanceLogging only feed printf and the
\* clock stub)
ConfigValues ==
    [criticalHeapThreshold : {U32(0), U32(4096)}, enableErrorLed : {0, 1}]

\* values returned by xPortGetFreeHeapSize
HeapSamples == {U32(1024), U32(8192)}

\* run-time counters as uxTaskGetSystemState can report them
CounterSamples ==
    {U32(0), U32(1), U32(2), <<655, 23593>>}

\* one report of the scheduler to calculate_cpu_usage: whether pvPortMalloc
\* succeeded, whether a task named IDLE is listed, its counter, the total
RunTimeStats ==
    [mallocOk : BOOLEAN, idlePresent : BOOLEAN,
     idle : CounterSamples, total : CounterSamples]

Buttons == {0, 1}

(***************************************************************************)
(* State.                                                                  *)
(***************************************************************************)
VARIABLES
    mainPc,                 \* position of main()
    guiEnabled,             \* value of OS_CONFIG_ENABLE_GUI in this build
    hw,                     \* outcome of the bring-up calls on this device
    pc,                     \* position of each task
    delay,                  \* ticks left of each task's vTaskDelay
    holder,                 \* holder of each mutex
    xTickCount,             \* the kernel's tick counter
    busyTicks,              \* ticks that arrived while a task was runnable
    sysConfig,              \* system.c: sysConfig
    currentError,           \* system.c: currentError
    systemUptime,           \* system.c: systemUptime
    cpuUtilization,         \* system.c: cpuUtilization
    freeHeapSize,           \* system.c: freeHeapSize
    lastPerformanceCheck,   \* system.c: lastPerformanceCheck
    calls,                  \* number of calls made of each function
    age,                    \* ticks since each task's last service call
    recomputedAt,           \* tick counts at which calculate_cpu_usage ran
    elapsed,                \* ticks since the last of them (since boot before)
    faultLog,               \* codes passed to system_set_error, in order
    blinked,                \* codes passed to blink_error_led, in order
    ext,                    \* the external caller of one peripheral, if any
    playerMain,             \* music player: position of its main()
    ctxPc,                  \* music player: position of the player task and of
                            \* the context that runs handle_button_event
    ctxRet,                 \* where play_song returns to in each of them
    ctxTmp,                 \* the value of currentSongIndex each has loaded
    playerEvent,            \* the button event handle_button_event was last
                            \* called with
    audioMutex,             \* music_player.c: holder of audioMutex
    songCount,              \* music_player.c: songCount
    currentSongIndex,       \* music_player.c: currentSongIndex
    currentState,           \* music_player.c: currentState
    currentPosition,        \* music_player.c: currentPosition
    currentDuration,        \* music_player.c: currentDuration
    currentVolume,          \* music_player.c: currentVolume
    driverCall,             \* the audio driver call made by the last step
    probe,                  \* a function examined on its own: input, result
    reader,                 \* a task reading the health figures, if any
    buttonCb,               \* callback registered by buttons_init
    buttonDown,             \* physical state of each button
    longSent,               \* long press already reported for this hold
    transitions,            \* physical button events, in order
    handled                 \* GUI handler invocations, in order

sysVars == <<sysConfig, currentError, systemUptime, cpuUtilization,
             freeHeapSize, lastPerformanceCheck>>

ghostVars == <<calls, age, recomputedAt, elapsed, faultLog, blinked>>

buttonVars == <<buttonDown, longSent, transitions, handled>>

schedVars == <<pc, delay, holder, xTickCount, busyTicks>>

playerVars == <<playerMain, ctxPc, ctxRet, ctxTmp, playerEvent, audioMutex,
                songCount, currentSongIndex, currentState, currentPosition,
                currentDuration, currentVolume, driverCall>>

vars == <<mainPc, guiEnabled, hw, playerVars, ext, probe, reader, pc, delay, holder, xTickCount, busyTicks,
          sysConfig, currentError, systemUptime, cpuUtilization,
          freeHeapSize, lastPerformanceCheck, calls, age, recomputedAt,
          elapsed, faultLog, blinked, buttonCb, buttonDown, longSent, transitions, handled>>

\* no caller outside main.c uses any of the three mutexes
NoExternal == [mutex |-> "none", inside |-> FALSE, takes |-> 0]

\* no task reads the health figures
NoReader == [pc |-> "none", figures |-> <<>>, during |-> <<>>]

\* no function is examined on its own (result -1: not computed)
NoProbe == [input |-> "none", result |-> -1]

NoStats == [mallocOk |-> FALSE, idlePresent |-> FALSE,
            idle |-> U32(0), total |-> U32(0)]

\* examples/music_player: button ids, playback states, status of a driver call
BUTTON_PLAY_PAUSE == 0
BUTTON_NEXT == 1
BUTTON_PREV == 2
BUTTON_VOL_UP == 3
BUTTON_VOL_DOWN == 4

AUDIO_STATE_STOPPED == 0
AUDIO_STATE_PLAYING == 1
AUDIO_STATE_PAUSED == 2

AUDIO_OK == 0
AUDIO_ERROR_IO == 6

\* the player task, and the context in which the button driver calls
\* handle_button_event
Contexts == {"MUSIC", "BTN"}

\* no audio driver call
NoCall == <<>>

\* one audio driver call with its argument or result
DriverCall(fn, value) == [fn |-> fn, value |-> value]

\* the statics of music_player.c as initialised, main() of the example at m
PlayerState(m) ==
    /\ playerMain = m
    /\ ctxPc = [c \in Contexts |-> IF c = "BTN" THEN "idle" ELSE "absent"]
    /\ ctxRet = [c \in Contexts |-> "none"]
    /\ ctxTmp = [c \in Contexts |-> 0]
    /\ playerEvent = [id |-> -1, kind |-> -1]
    /\ audioMutex = "null"
    /\ songCount = 0
    /\ currentSongIndex = 0
    /\ currentState = AUDIO_STATE_STOPPED
    /\ currentPosition = 0
    /\ currentDuration = 0
    /\ currentVolume = 70
    /\ driverCall = NoCall

\* the statics of main.c and system.c as initialised, no task created
Statics(h, g, e, p, r) ==
    /\ mainPc = "hw_init"
    /\ guiEnabled = g
    /\ hw = h
    /\ pc = [t \in Tasks |-> "absent"]
    /\ delay = [t \in Tasks |-> 0]
    /\ holder = [m \in Mutexes |-> "null"]
    /\ xTickCount = U32(0)
    /\ busyTicks = 0
    /\ sysConfig = [criticalHeapThreshold |-> U32(0), enableErrorLed |-> 0]
    /\ currentError = ERROR_NONE
    /\ systemUptime = U32(0)
    /\ cpuUtilization = 0
    /\ freeHeapSize = U32(0)
    /\ lastPerformanceCheck = U32(0)
    /\ calls = [f \in Functions |-> 0]
    /\ age = [t \in Tasks |-> -1]
    /\ recomputedAt = <<>>
    /\ elapsed = 0
    /\ faultLog = <<>>
    /\ blinked = <<>>
    /\ ext = e
    /\ probe = p
    /\ reader = r
    /\ buttonCb = "none"
    /\ buttonDown = [b \in Buttons |-> FALSE]
    /\ longSent = [b \in Buttons |-> FALSE]
    /\ transitions = <<>>
    /\ handled = <<>>

\* the state main() of the firmware starts in; the example is another
\* program and is not running
BootState(h, g, e, p, r) == Statics(h, g, e, p, r) /\ PlayerState("off")

BootWith(h, g, e) == BootState(h, g, e, NoProbe, NoReader)

Boot(h, g) == BootWith(h, g, NoExternal)

Init ==
    \E h \in Hardware, g \in {0, OS_CONFIG_ENABLE_GUI} :
        /\ (g = 0 => ~h.display)
        /\ Boot(h, g)

Called(f) == calls' = [calls EXCEPT ![f] = @ + 1]

(***************************************************************************)
(* main()                                                                  *)
(***************************************************************************)
\* gpio_init(); buttons_init(buttonCallback);
MainHardwareInit ==
    /\ mainPc = "hw_init"
    /\ mainPc' = "create_mutexes"
    /\ buttonCb' = "buttonCallback"
    /\ calls' = [calls EXCEPT !["gpio_init"] = @ + 1, !["buttons_init"] = @ + 1]
    /\ UNCHANGED <<guiEnabled, hw, playerVars, ext, probe, reader, schedVars, sysVars, age,
                   recomputedAt, elapsed, faultLog, blinked, buttonVars>>

\* the three xSemaphoreCreateMutex calls
MainCreateMutexes ==
    /\ mainPc = "create_mutexes"
    /\ mainPc' = "create_tasks"
    /\ holder' = [m \in Mutexes |-> "free"]
    /\ UNCHANGED <<guiEnabled, hw, playerVars, ext, probe, reader, pc, delay, xTickCount, busyTicks, sysVars,
                   ghostVars, buttonCb, buttonVars>>

\* variant: the GUI task is created without looking at OS_CONFIG_ENABLE_GUI
MainCreateTasks_GuiAlways ==
    /\ mainPc = "create_tasks"
    /\ mainPc' = "start_scheduler"
    /\ pc' = [t \in Tasks |-> "start"]
    /\ UNCHANGED <<guiEnabled, hw, playerVars, ext, probe, reader, delay, holder, xTickCount, busyTicks,
                   sysVars, ghostVars, buttonCb, buttonVars>>

\* the xTaskCreate calls; the GUI task only if OS_CONFIG_ENABLE_GUI
MainCreateTasks ==
    /\ mainPc = "create_tasks"
    /\ mainPc' = "start_scheduler"
    /\ pc' = [t \in Tasks |->
                IF t = "GUI" /\ guiEnabled = 0 THEN "absent" ELSE "start"]
    /\ UNCHANGED <<guiEnabled, hw, playerVars, ext, probe, reader, delay, holder, xTickCount, busyTicks,
                   sysVars, ghostVars, buttonCb, buttonVars>>

\* vTaskStartScheduler()
MainStartScheduler ==
    /\ mainPc = "start_scheduler"
    /\ mainPc' = "scheduler"
    /\ UNCHANGED <<guiEnabled, hw, playerVars, ext, probe, reader, schedVars, sysVars, ghostVars, buttonCb,
                   buttonVars>>

Main ==
    \/ MainHardwareInit
    \/ MainCreateMutexes
    \/ MainCreateTasks
    \/ MainStartScheduler

(***************************************************************************)
(* The scheduler: one core, fixed priorities, preemptive.                  *)
(***************************************************************************)
Alive(t) == pc[t] \notin {"absent", "deleted"}

\* variant: the acquire polls the mutex instead of blocking on it
Blocked_Polling(t) == FALSE

\* blocked in xSemaphoreTake(..., portMAX_DELAY)
Blocked(t) ==
    /\ t # "SYS"
    /\ pc[t] = "take"
    /\ holder[OwnMutex[t]] # "free"

\* inside a service call that does not return: "spin" when the call busy-
\* waits on the peripheral, "stuck" when it blocks on it
Hung(t) == pc[t] \in {"spin", "stuck"}

Runnable(t) ==
    /\ mainPc = "scheduler"
    /\ Alive(t)
    /\ delay[t] = 0
    /\ ~Blocked(t)
    /\ pc[t] # "stuck"

\* variant: the core is handed to any runnable task
Running_AnyRunnable(t) == Runnable(t)

\* the task the core executes: a runnable task of the highest priority
Running(t) ==
    /\ Runnable(t)
    /\ \A u \in Tasks : Runnable(u) => Priority[u] <= Priority[t]

Idle == \A t \in Tasks : ~Runnable(t)

\* the core executes a task's code that takes a bounded time to reach the
\* task's next sleep (a busy-waiting call takes for ever instead)
CoreBusy == \E t \in Tasks : Running(t) /\ pc[t] # "spin"

Bump(c, f) == [c EXCEPT ![f] = @ + 1]

\* xSemaphoreTake(m, portMAX_DELAY) returning to task t
SemaphoreTake(t, m) ==
    /\ holder[m] = "free"
    /\ holder' = [holder EXCEPT ![m] = t]

\* xSemaphoreGive(m) by task t
SemaphoreGive(t, m) ==
    holder' = [holder EXCEPT ![m] = IF @ = t THEN "free" ELSE @]

\* vTaskDelay(n): the task is unblocked by the n-th tick from now
TaskDelay(t, n) == delay' = [delay EXCEPT ![t] = n]

Goto(t, p) == pc' = [pc EXCEPT ![t] = p]

\* the tick interrupt
TickStep ==
    /\ mainPc = "scheduler"
    /\ (CoreBusy => busyTicks < MaxBusyTicks)
    /\ xTickCount' = U32Add(xTickCount, U32(1))
    /\ delay' = [t \in Tasks |-> IF delay[t] > 0 THEN delay[t] - 1 ELSE 0]
    /\ busyTicks' = IF CoreBusy THEN busyTicks + 1 ELSE busyTicks
    /\ age' = [t \in Tasks |-> IF age[t] >= 0 THEN age[t] + 1 ELSE age[t]]
    /\ elapsed' = elapsed + 1
    /\ UNCHANGED <<mainPc, guiEnabled, hw, playerVars, ext, probe, reader, pc, holder, sysVars, calls,
                   recomputedAt, faultLog, blinked, buttonCb, buttonVars>>

\* the tick interrupt, up to the given number of ticks
TickTo(limit) == U32Lt(xTickCount, U32(limit)) /\ TickStep

Tick == TickTo(MaxTick)

(***************************************************************************)
(* core/system.c                                                           *)
(***************************************************************************)
\* the stub returns 1; its 0 is the failure system_init tests for, which
\* only the devices of ClockFailures produce
initialize_clocks == IF hw.clock THEN 1 ELSE 0

\* the value system_init returns
system_init_result == IF initialize_clocks = 0 THEN -1 ELSE 0

calculate_cpu_usage(stat) ==
    IF ~stat.mallocOk THEN 0
    ELSE IF U32Lt(U32(0), stat.total) /\ stat.idlePresent
         THEN U32ToU8(U32Sub(U32(100),
                             U32Div(U32MulSmall(stat.idle, 100), stat.total)))
         ELSE 0

\* variant: the test compares currentTime with the time the next
\* recomputation is due at
PerformanceCheckDue_Deadline ==
    LET currentTime == U32DivSmall(xTickCount, SYSTEM_TICK_RATE_HZ \div 1000)
    IN  U32Ge(currentTime,
              U32Add(lastPerformanceCheck, U32(PERFORMANCE_CHECK_INTERVAL)))

\* the test of system_update that starts a health recomputation
PerformanceCheckDue ==
    LET currentTime == U32DivSmall(xTickCount, SYSTEM_TICK_RATE_HZ \div 1000)
    IN  U32Ge(U32Sub(currentTime, lastPerformanceCheck),
              U32(PERFORMANCE_CHECK_INTERVAL))

\* variant: the CPU figure is computed on every call, outside the interval
\* test
system_update_CpuEveryCall(heap, stat) ==
    LET currentTime == U32DivSmall(xTickCount, SYSTEM_TICK_RATE_HZ \div 1000)
        due == PerformanceCheckDue
        low == U32Lt(heap, sysConfig.criticalHeapThreshold)
        c1 == Bump(calls, "system_update")
        c2 == Bump(c1, "calculate_cpu_usage")
    IN  /\ systemUptime' = currentTime
        /\ freeHeapSize' = heap
        /\ cpuUtilization' = calculate_cpu_usage(stat)
        /\ IF due
           THEN /\ lastPerformanceCheck' = currentTime
                /\ calls' = IF low THEN Bump(c2, "memory_saving_mode") ELSE c2
                /\ recomputedAt' = Append(recomputedAt, xTickCount)
           ELSE /\ calls' = c1
                /\ UNCHANGED <<lastPerformanceCheck, recomputedAt>>
        /\ UNCHANGED <<sysConfig, currentError>>

\* variant: low memory is reported through the fault code
system_update_ReportsLowMemory(heap, stat) ==
    LET currentTime == U32DivSmall(xTickCount, SYSTEM_TICK_RATE_HZ \div 1000)
        due == PerformanceCheckDue
        low == U32Lt(heap, sysConfig.criticalHeapThreshold)
        c1 == Bump(calls, "system_update")
        c2 == Bump(c1, "calculate_cpu_usage")
    IN  /\ systemUptime' = currentTime
        /\ freeHeapSize' = heap
        /\ IF due
           THEN /\ cpuUtilization' = calculate_cpu_usage(stat)
                /\ lastPerformanceCheck' = currentTime
                /\ calls' = IF low THEN Bump(c2, "memory_saving_mode") ELSE c2
                /\ currentError' = IF low THEN ERROR_OUT_OF_MEMORY
                                          ELSE currentError
                /\ recomputedAt' = Append(recomputedAt, xTickCount)
           ELSE /\ calls' = c1
                /\ UNCHANGED <<cpuUtilization, lastPerformanceCheck,
                               recomputedAt, currentError>>
        /\ UNCHANGED sysConfig

\* variant: lastPerformanceCheck is not brought up to currentTime
system_update_NoStamp(heap, stat) ==
    LET currentTime == U32DivSmall(xTickCount, SYSTEM_TICK_RATE_HZ \div 1000)
        due == PerformanceCheckDue
        low == U32Lt(heap, sysConfig.criticalHeapThreshold)
        c1 == Bump(calls, "system_update")
        c2 == Bump(c1, "calculate_cpu_usage")
    IN  /\ systemUptime' = currentTime
        /\ freeHeapSize' = heap
        /\ IF due
           THEN /\ cpuUtilization' = calculate_cpu_usage(stat)
                /\ UNCHANGED lastPerformanceCheck
                /\ calls' = IF low THEN Bump(c2, "memory_saving_mode") ELSE c2
                /\ recomputedAt' = Append(recomputedAt, xTickCount)
           ELSE /\ calls' = c1
                /\ UNCHANGED <<cpuUtilization, lastPerformanceCheck,
                               recomputedAt>>
        /\ UNCHANGED <<sysConfig, currentError>>

\* variant: the low-memory test sits outside the periodic block
system_update_HookEveryCall(heap, stat) ==
    LET currentTime == U32DivSmall(xTickCount, SYSTEM_TICK_RATE_HZ \div 1000)
        due == PerformanceCheckDue
        low == U32Lt(heap, sysConfig.criticalHeapThreshold)
        c1 == Bump(calls, "system_update")
        c2 == IF due THEN Bump(c1, "calculate_cpu_usage") ELSE c1
    IN  /\ systemUptime' = currentTime
        /\ freeHeapSize' = heap
        /\ IF due
           THEN /\ cpuUtilization' = calculate_cpu_usage(stat)
                /\ lastPerformanceCheck' = currentTime
                /\ recomputedAt' = Append(recomputedAt, xTickCount)
           ELSE UNCHANGED <<cpuUtilization, lastPerformanceCheck, recomputedAt>>
        /\ calls' = IF low THEN Bump(c2, "memory_saving_mode") ELSE c2
        /\ UNCHANGED <<sysConfig, currentError>>

\* system_update() with the free heap size and run-time counters the kernel
\* reports during the call
system_update(heap, stat) ==
    LET currentTime == U32DivSmall(xTickCount, SYSTEM_TICK_RATE_HZ \div 1000)
        due == PerformanceCheckDue
        low == U32Lt(heap, sysConfig.criticalHeapThreshold)
        c1 == Bump(calls, "system_update")
        c2 == Bump(c1, "calculate_cpu_usage")
    IN  /\ systemUptime' = currentTime
        /\ freeHeapSize' = heap
        /\ IF due
           THEN /\ cpuUtilization' = calculate_cpu_usage(stat)
                /\ lastPerformanceCheck' = currentTime
                /\ calls' = IF low THEN Bump(c2, "memory_saving_mode") ELSE c2
                /\ recomputedAt' = Append(recomputedAt, xTickCount)
           ELSE /\ calls' = c1
                /\ UNCHANGED <<cpuUtilization, lastPerformanceCheck,
                               recomputedAt>>
        /\ UNCHANGED <<sysConfig, currentError>>

\* variant: a fault already recorded is not overwritten
system_set_error_FirstSticks(error, c) ==
    /\ currentError' = IF currentError = ERROR_NONE THEN error ELSE currentError
    /\ faultLog' = Append(faultLog, error)
    /\ blinked' = IF sysConfig.enableErrorLed # 0
                  THEN Append(blinked, error)
                  ELSE blinked
    /\ calls' = IF sysConfig.enableErrorLed # 0
                THEN Bump(Bump(c, "system_set_error"), "blink_error_led")
                ELSE Bump(c, "system_set_error")

\* variant: the indicator is driven whatever the configuration says
system_set_error_AlwaysBlinks(error, c) ==
    /\ currentError' = error
    /\ faultLog' = Append(faultLog, error)
    /\ blinked' = Append(blinked, error)
    /\ calls' = Bump(Bump(c, "system_set_error"), "blink_error_led")

\* system_set_error(error) made after the calls already counted in c
system_set_error(error, c) ==
    /\ currentError' = error
    /\ faultLog' = Append(faultLog, error)
    /\ blinked' = IF sysConfig.enableErrorLed # 0
                  THEN Append(blinked, error)
                  ELSE blinked
    /\ calls' = IF sysConfig.enableErrorLed # 0
                THEN Bump(Bump(c, "system_set_error"), "blink_error_led")
                ELSE Bump(c, "system_set_error")

system_get_error == currentError

\* variant: the uptime is computed from the tick count at the call
system_get_uptime_Live ==
    U32DivSmall(xTickCount, SYSTEM_TICK_RATE_HZ \div 1000)

system_get_uptime == systemUptime

system_get_cpu_usage == cpuUtilization

system_get_free_heap == freeHeapSize

(***************************************************************************)
(* systemTask                                                              *)
(***************************************************************************)
\* system_init(&config) with an uninitialised config; its result is ignored
SystemTaskInit ==
    /\ Running("SYS")
    /\ pc["SYS"] = "start"
    /\ \E config \in ConfigValues : sysConfig' = config
    /\ Called("system_init")
    /\ Goto("SYS", "update")
    /\ UNCHANGED <<mainPc, guiEnabled, hw, playerVars, ext, probe, reader, delay, holder, xTickCount,
                   busyTicks, currentError, systemUptime, cpuUtilization,
                   freeHeapSize, lastPerformanceCheck, age, recomputedAt, elapsed, faultLog, blinked,
                   buttonCb, buttonVars>>

SystemTaskUpdate ==
    /\ Running("SYS")
    /\ pc["SYS"] = "update"
    /\ \E heap \in HeapSamples :
         \E stat \in IF PerformanceCheckDue THEN RunTimeStats ELSE {NoStats} :
            system_update(heap, stat)
    /\ age' = [age EXCEPT !["SYS"] = 0]
    /\ elapsed' = IF Len(recomputedAt') > Len(recomputedAt) THEN 0 ELSE elapsed
    /\ Goto("SYS", "delay")
    /\ UNCHANGED <<mainPc, guiEnabled, hw, playerVars, ext, probe, reader, delay, holder, xTickCount,
                   busyTicks, faultLog, blinked, buttonCb, buttonVars>>

SystemTaskDelay ==
    /\ Running("SYS")
    /\ pc["SYS"] = "delay"
    /\ TaskDelay("SYS", Cadence["SYS"])
    /\ Goto("SYS", "update")
    /\ UNCHANGED <<mainPc, guiEnabled, hw, playerVars, ext, probe, reader, holder, xTickCount, busyTicks,
                   sysVars, ghostVars, buttonCb, buttonVars>>

systemTask == SystemTaskInit \/ SystemTaskUpdate \/ SystemTaskDelay

(***************************************************************************)
(* The loop shared by fsTask, audioTask and guiTask:                       *)
(* take own mutex, service call, give, vTaskDelay.                         *)
(***************************************************************************)
\* variant: the guarded section also takes sdCardMutex
LoopTake_AlsoSdCard(t) ==
    /\ Running(t)
    /\ pc[t] = "take"
    /\ holder[OwnMutex[t]] = "free"
    /\ holder' = [m \in Mutexes |->
                    IF m = OwnMutex[t] \/ (m = "sdCardMutex" /\ holder[m] = "free")
                    THEN t ELSE holder[m]]
    /\ Goto(t, "update")
    /\ UNCHANGED <<mainPc, guiEnabled, hw, playerVars, ext, probe, reader, delay, xTickCount, busyTicks,
                   sysVars, ghostVars, buttonCb, buttonVars>>

\* variant: xSemaphoreTake with a timeout of zero whose result is not tested
LoopTake_Unchecked(t) ==
    /\ mainPc = "scheduler"
    /\ pc[t] = "take"
    /\ delay[t] = 0
    /\ \A u \in Tasks : Runnable(u) => Priority[u] <= Priority[t]
    /\ holder' = [holder EXCEPT ![OwnMutex[t]] = IF @ = "free" THEN t ELSE @]
    /\ Goto(t, "update")
    /\ UNCHANGED <<mainPc, guiEnabled, hw, playerVars, ext, probe, reader, delay, xTickCount, busyTicks,
                   sysVars, ghostVars, buttonCb, buttonVars>>

LoopTake(t) ==
    /\ Running(t)
    /\ pc[t] = "take"
    /\ SemaphoreTake(t, OwnMutex[t])
    /\ Goto(t, "update")
    /\ UNCHANGED <<mainPc, guiEnabled, hw, playerVars, ext, probe, reader, delay, xTickCount, busyTicks,
                   sysVars, ghostVars, buttonCb, buttonVars>>

\* variant: the guarded section makes the service call twice
LoopUpdate_Twice(t) ==
    /\ Running(t)
    /\ pc[t] = "update"
    /\ calls' = [calls EXCEPT ![ServiceCall[t]] = @ + 2]
    /\ age' = [age EXCEPT ![t] = 0]
    /\ Goto(t, "give")
    /\ UNCHANGED <<mainPc, guiEnabled, hw, playerVars, ext, probe, reader, delay, holder,
                   xTickCount, busyTicks, sysVars, recomputedAt, elapsed, faultLog, blinked,
                   buttonCb, buttonVars>>

LoopUpdate(t) ==
    /\ Running(t)
    /\ pc[t] = "update"
    /\ Called(ServiceCall[t])
    /\ age' = [age EXCEPT ![t] = 0]
    /\ Goto(t, "give")
    /\ UNCHANGED <<mainPc, guiEnabled, hw, playerVars, ext, probe, reader, delay, holder, xTickCount,
                   busyTicks, sysVars, recomputedAt, elapsed, faultLog, blinked, buttonCb,
                   buttonVars>>

\* variant: xSemaphoreGive is missing
LoopGive_NoRelease(t) ==
    /\ Running(t)
    /\ pc[t] = "give"
    /\ Goto(t, "delay")
    /\ UNCHANGED <<mainPc, guiEnabled, hw, playerVars, ext, probe, reader, delay, holder, xTickCount,
                   busyTicks, sysVars, ghostVars, buttonCb, buttonVars>>

LoopGive(t) ==
    /\ Running(t)
    /\ pc[t] = "give"
    /\ SemaphoreGive(t, OwnMutex[t])
    /\ Goto(t, "delay")
    /\ UNCHANGED <<mainPc, guiEnabled, hw, playerVars, ext, probe, reader, delay, xTickCount, busyTicks,
                   sysVars, ghostVars, buttonCb, buttonVars>>

LoopDelay(t) ==
    /\ Running(t)
    /\ pc[t] = "delay"
    /\ TaskDelay(t, Cadence[t])
    /\ Goto(t, "take")
    /\ UNCHANGED <<mainPc, guiEnabled, hw, playerVars, ext, probe, reader, holder, xTickCount, busyTicks,
                   sysVars, ghostVars, buttonCb, buttonVars>>

(***************************************************************************)
(* fsTask                                                                  *)
(***************************************************************************)
\* variant: the failure branch reports the error but does not end the task
FsTaskSdCardInit_NoDelete ==
    /\ Running("FS")
    /\ pc["FS"] = "start"
    /\ IF hw.sd
       THEN /\ Called("sd_card_init")
            /\ UNCHANGED <<currentError, faultLog, blinked>>
       ELSE system_set_error(ERROR_FS_INIT_FAILED, Bump(calls, "sd_card_init"))
    /\ Goto("FS", "fs_init")
    /\ UNCHANGED <<mainPc, guiEnabled, hw, playerVars, ext, probe, reader, delay, holder, xTickCount,
                   busyTicks, sysConfig, systemUptime, cpuUtilization,
                   freeHeapSize, lastPerformanceCheck, age, recomputedAt, elapsed,
                   buttonCb, buttonVars>>

\* if (sd_card_init() != SD_CARD_OK) { system_set_error(...); vTaskDelete }
FsTaskSdCardInit ==
    /\ Running("FS")
    /\ pc["FS"] = "start"
    /\ IF hw.sd
       THEN /\ Called("sd_card_init")
            /\ Goto("FS", "fs_init")
            /\ UNCHANGED <<currentError, faultLog, blinked>>
       ELSE /\ system_set_error(ERROR_FS_INIT_FAILED, Bump(calls, "sd_card_init"))
            /\ Goto("FS", "deleted")
    /\ UNCHANGED <<mainPc, guiEnabled, hw, playerVars, ext, probe, reader, delay, holder, xTickCount,
                   busyTicks, sysConfig, systemUptime, cpuUtilization,
                   freeHeapSize, lastPerformanceCheck, age, recomputedAt, elapsed,
                   buttonCb, buttonVars>>

\* variant: a mount failure is reported with the code of a card failure
FsTaskFsInit_InitCode ==
    /\ Running("FS")
    /\ pc["FS"] = "fs_init"
    /\ IF hw.fs
       THEN /\ Called("fs_init")
            /\ Goto("FS", "take")
            /\ UNCHANGED <<currentError, faultLog, blinked>>
       ELSE /\ system_set_error(ERROR_FS_INIT_FAILED, Bump(calls, "fs_init"))
            /\ Goto("FS", "deleted")
    /\ UNCHANGED <<mainPc, guiEnabled, hw, playerVars, ext, probe, reader, delay, holder, xTickCount,
                   busyTicks, sysConfig, systemUptime, cpuUtilization,
                   freeHeapSize, lastPerformanceCheck, age, recomputedAt, elapsed,
                   buttonCb, buttonVars>>

\* if (fs_init() != FS_OK) { system_set_error(...); vTaskDelete }
FsTaskFsInit ==
    /\ Running("FS")
    /\ pc["FS"] = "fs_init"
    /\ IF hw.fs
       THEN /\ Called("fs_init")
            /\ Goto("FS", "take")
            /\ UNCHANGED <<currentError, faultLog, blinked>>
       ELSE /\ system_set_error(ERROR_FS_MOUNT_FAILED, Bump(calls, "fs_init"))
            /\ Goto("FS", "deleted")
    /\ UNCHANGED <<mainPc, guiEnabled, hw, playerVars, ext, probe, reader, delay, holder, xTickCount,
                   busyTicks, sysConfig, systemUptime, cpuUtilization,
                   freeHeapSize, lastPerformanceCheck, age, recomputedAt, elapsed,
                   buttonCb, buttonVars>>

FsTaskTake == LoopTake("FS")

FsTaskUpdate == LoopUpdate("FS")

FsTaskGive == LoopGive("FS")

FsTaskDelay == LoopDelay("FS")

fsTask ==
    \/ FsTaskSdCardInit
    \/ FsTaskFsInit
    \/ FsTaskTake
    \/ FsTaskUpdate
    \/ FsTaskGive
    \/ FsTaskDelay

(***************************************************************************)
(* audioTask                                                               *)
(***************************************************************************)
\* variant: a failed audio_init is reported through system_set_error
AudioTaskInit_Reports ==
    /\ Running("AUDIO")
    /\ pc["AUDIO"] = "start"
    /\ IF hw.audio
       THEN /\ Called("audio_init")
            /\ UNCHANGED <<currentError, faultLog, blinked>>
       ELSE system_set_error(ERROR_AUDIO_INIT_FAILED, Bump(calls, "audio_init"))
    /\ Goto("AUDIO", IF hw.audio THEN "take" ELSE "deleted")
    /\ UNCHANGED <<mainPc, guiEnabled, hw, playerVars, ext, probe, reader, delay, holder, xTickCount,
                   busyTicks, sysConfig, systemUptime, cpuUtilization,
                   freeHeapSize, lastPerformanceCheck, age, recomputedAt, elapsed,
                   buttonCb, buttonVars>>

\* if (audio_init() != AUDIO_OK) { vTaskDelete }
AudioTaskInit ==
    /\ Running("AUDIO")
    /\ pc["AUDIO"] = "start"
    /\ Called("audio_init")
    /\ Goto("AUDIO", IF hw.audio THEN "take" ELSE "deleted")
    /\ UNCHANGED <<mainPc, guiEnabled, hw, playerVars, ext, probe, reader, delay, holder, xTickCount,
                   busyTicks, sysVars, age, recomputedAt, elapsed, faultLog, blinked,
                   buttonCb, buttonVars>>

AudioTaskTake == LoopTake("AUDIO")

AudioTaskUpdate == LoopUpdate("AUDIO")

AudioTaskGive == LoopGive("AUDIO")

AudioTaskDelay == LoopDelay("AUDIO")

audioTask ==
    \/ AudioTaskInit
    \/ AudioTaskTake
    \/ AudioTaskUpdate
    \/ AudioTaskGive
    \/ AudioTaskDelay

(***************************************************************************)
(* guiTask                                                                 *)
(***************************************************************************)
\* variant: a failed display_init is tried again
GuiTaskDisplayInit_Retry ==
    /\ Running("GUI")
    /\ pc["GUI"] = "start"
    /\ Called("display_init")
    /\ Goto("GUI", IF hw.display THEN "gui_init" ELSE "start")
    /\ TaskDelay("GUI", IF hw.display THEN 0 ELSE Cadence["GUI"])
    /\ UNCHANGED <<mainPc, guiEnabled, hw, playerVars, ext, probe, reader, holder, xTickCount,
                   busyTicks, sysVars, age, recomputedAt, elapsed, faultLog, blinked,
                   buttonCb, buttonVars>>

\* if (display_init() != DISPLAY_OK) { vTaskDelete }
GuiTaskDisplayInit ==
    /\ Running("GUI")
    /\ pc["GUI"] = "start"
    /\ Called("display_init")
    /\ Goto("GUI", IF hw.display THEN "gui_init" ELSE "deleted")
    /\ UNCHANGED <<mainPc, guiEnabled, hw, playerVars, ext, probe, reader, delay, holder, xTickCount,
                   busyTicks, sysVars, age, recomputedAt, elapsed, faultLog, blinked,
                   buttonCb, buttonVars>>

\* gui_init(); the status it returns is not looked at
GuiTaskGuiInit ==
    /\ Running("GUI")
    /\ pc["GUI"] = "gui_init"
    /\ Called("gui_init")
    /\ Goto("GUI", "take")
    /\ UNCHANGED <<mainPc, guiEnabled, hw, playerVars, ext, probe, reader, delay, holder, xTickCount,
                   busyTicks, sysVars, age, recomputedAt, elapsed, faultLog, blinked,
                   buttonCb, buttonVars>>

GuiTaskTake == LoopTake("GUI")

GuiTaskUpdate == LoopUpdate("GUI")

GuiTaskGive == LoopGive("GUI")

\* variant: the loop goes back to the setup call
GuiTaskDelay_BackToSetup ==
    /\ Running("GUI")
    /\ pc["GUI"] = "delay"
    /\ TaskDelay("GUI", Cadence["GUI"])
    /\ Goto("GUI", "gui_init")
    /\ UNCHANGED <<mainPc, guiEnabled, hw, playerVars, ext, probe, reader, holder, xTickCount, busyTicks,
                   sysVars, ghostVars, buttonCb, buttonVars>>

GuiTaskDelay == LoopDelay("GUI")

guiTask ==
    \/ GuiTaskDisplayInit
    \/ GuiTaskGuiInit
    \/ GuiTaskTake
    \/ GuiTaskUpdate
    \/ GuiTaskGive
    \/ GuiTaskDelay

(***************************************************************************)
(* The firmware: main, the four tasks and the tick interrupt.              *)
(***************************************************************************)
Next ==
    \/ Main
    \/ systemTask
    \/ fsTask
    \/ audioTask
    \/ guiTask
    \/ Tick

Spec == Init /\ [][Next]_vars

\* The scheduler always runs the runnable task of the highest priority and
\* the tick interrupt keeps arriving: every task's next step and the tick
\* are taken if they stay enabled.
Fairness ==
    /\ WF_vars(Main)
    /\ WF_vars(systemTask)
    /\ WF_vars(fsTask)
    /\ WF_vars(audioTask)
    /\ WF_vars(guiTask)
    /\ WF_vars(Tick)

LiveSpec == Spec /\ Fairness

(***************************************************************************)
(* The firmware on a device whose clock programming fails.                 *)
(***************************************************************************)
ClockFailInit ==
    \E h \in ClockFailures, g \in {0, OS_CONFIG_ENABLE_GUI} :
        /\ (g = 0 => ~h.display)
        /\ Boot(h, g)

ClockFailSpec == ClockFailInit /\ [][Next]_vars

(***************************************************************************)
(* The firmware on a device with no card, no audio and no display: the     *)
(* three peripheral tasks delete themselves at bring-up and only the       *)
(* Supervisor is left.  The loop actions of the deleted tasks are never    *)
(* enabled and are left out of the next-state relation.                    *)
(***************************************************************************)
NoHardware ==
    [clock |-> TRUE, sd |-> FALSE, fs |-> FALSE, audio |-> FALSE,
     display |-> FALSE, gui |-> FALSE]

HealthInit == Boot(NoHardware, OS_CONFIG_ENABLE_GUI)

HealthTick == TickTo(MaxHealthTick)

HealthNext ==
    \/ Main
    \/ systemTask
    \/ FsTaskSdCardInit
    \/ AudioTaskInit
    \/ GuiTaskDisplayInit
    \/ HealthTick

HealthSpec == HealthInit /\ [][HealthNext]_vars

(***************************************************************************)
(* The firmware, every bring-up succeeding, with one caller outside the    *)
(* four tasks that uses one of the three mutexes around its own accesses   *)
(* to that peripheral.  The caller takes the mutex when it is free and     *)
(* gives it back at a time of its choosing, possibly never.                *)
(***************************************************************************)
AllHardware ==
    [clock |-> TRUE, sd |-> TRUE, fs |-> TRUE, audio |-> TRUE,
     display |-> TRUE, gui |-> TRUE]

ContentionInit ==
    \E m \in Mutexes :
        BootWith(AllHardware, OS_CONFIG_ENABLE_GUI,
                 [mutex |-> m, inside |-> FALSE, takes |-> 0])

\* xSemaphoreTake(m, portMAX_DELAY) returning to the external caller
ExtTake ==
    /\ mainPc = "scheduler"
    /\ ext.mutex \in Mutexes
    /\ ~ext.inside
    /\ ext.takes < MaxExtTakes
    /\ SemaphoreTake("EXT", ext.mutex)
    /\ ext' = [ext EXCEPT !.inside = TRUE, !.takes = @ + 1]
    /\ UNCHANGED <<mainPc, guiEnabled, hw, playerVars, probe, reader, pc, delay, xTickCount,
                   busyTicks, sysVars, ghostVars, buttonCb, buttonVars>>

\* xSemaphoreGive(m) by the external caller
ExtGive ==
    /\ mainPc = "scheduler"
    /\ ext.mutex \in Mutexes
    /\ ext.inside
    /\ SemaphoreGive("EXT", ext.mutex)
    /\ ext' = [ext EXCEPT !.inside = FALSE]
    /\ UNCHANGED <<mainPc, guiEnabled, hw, playerVars, probe, reader, pc, delay, xTickCount,
                   busyTicks, sysVars, ghostVars, buttonCb, buttonVars>>

ScenarioTick == TickTo(MaxScenarioTick)

ContentionNext ==
    \/ Main
    \/ systemTask
    \/ fsTask
    \/ audioTask
    \/ guiTask
    \/ ScenarioTick
    \/ ExtTake
    \/ ExtGive

ContentionSpec == ContentionInit /\ [][ContentionNext]_vars

\* The same with an external caller that never gives the mutex back once
\* it has it.  The scheduler and the tick are fair as in LiveSpec; the
\* external caller is under no obligation to take the mutex at all.
StuckNext ==
    \/ Main
    \/ systemTask
    \/ fsTask
    \/ audioTask
    \/ guiTask
    \/ ScenarioTick
    \/ ExtTake

\* the scheduler and the tick in the scenarios
StuckFairness ==
    /\ WF_vars(Main)
    /\ WF_vars(systemTask)
    /\ WF_vars(fsTask)
    /\ WF_vars(audioTask)
    /\ WF_vars(guiTask)
    /\ WF_vars(ScenarioTick)

StuckSpec == ContentionInit /\ [][StuckNext]_vars /\ StuckFairness

(***************************************************************************)
(* The firmware, every bring-up succeeding, with a peripheral whose        *)
(* service call (fs_update, audio_update or gui_update) at some point does *)
(* not return.  The drivers are not part of the sources: a call that does  *)
(* not return either busy-waits on the peripheral, keeping the core, or    *)
(* blocks on it in the kernel, releasing the core.                         *)
(***************************************************************************)
HangInit == Boot(AllHardware, OS_CONFIG_ENABLE_GUI)

\* the service call of task t is entered and does not return
ServiceCallHangs ==
    \E t \in Tasks \ {"SYS"}, how \in {"spin", "stuck"} :
        /\ Running(t)
        /\ pc[t] = "update"
        /\ \A u \in Tasks : ~Hung(u)
        /\ Called(ServiceCall[t])
        /\ Goto(t, how)
        /\ UNCHANGED <<mainPc, guiEnabled, hw, playerVars, ext, probe, reader, delay, holder, xTickCount,
                       busyTicks, sysVars, age, recomputedAt, elapsed, faultLog, blinked,
                       buttonCb, buttonVars>>

HangNext ==
    \/ Main
    \/ systemTask
    \/ fsTask
    \/ audioTask
    \/ guiTask
    \/ ScenarioTick
    \/ ServiceCallHangs

HangSpec == HangInit /\ [][HangNext]_vars

\* no fairness for the hang itself: a service call may always return
HangLiveSpec == HangSpec /\ StuckFairness

(***************************************************************************)
(* calculate_cpu_usage on its own: one report of the scheduler, drawn from *)
(* a wider range of counters than the firmware model affords, and the      *)
(* figure computed from it.                                                *)
(***************************************************************************)
\* 42949672 = <<655, 23592>> is the largest idle counter whose hundredfold
\* fits 32 bits
CpuCounterSamples ==
    CounterSamples \cup {U32(50), U32(100), <<655, 23592>>, U32Max}

CpuStats ==
    [mallocOk : BOOLEAN, idlePresent : BOOLEAN,
     idle : CpuCounterSamples, total : CpuCounterSamples]

CpuInit ==
    \E stat \in CpuStats :
        BootState(NoHardware, OS_CONFIG_ENABLE_GUI, NoExternal,
                  [input |-> stat, result |-> -1], NoReader)

\* cpuUtilization = calculate_cpu_usage();
CpuCompute ==
    /\ probe.result = -1
    /\ probe' = [probe EXCEPT !.result = calculate_cpu_usage(probe.input)]
    /\ UNCHANGED <<mainPc, guiEnabled, hw, playerVars, ext, reader, schedVars, sysVars,
                   ghostVars, buttonCb, buttonVars>>

CpuNext == CpuCompute

CpuSpec == CpuInit /\ [][CpuNext]_vars

(***************************************************************************)
(* The Supervisor alone after a long uptime: the tick counter is within    *)
(* PERFORMANCE_CHECK_INTERVAL of 2^32 and system_update has just made a    *)
(* health recomputation, so the next one falls behind the wrap of the      *)
(* counter (it wraps after 2^32 ticks, some 49.7 days at 1000 Hz).  The    *)
(* histories of calls are taken from this point on.                        *)
(***************************************************************************)
WrapLeads == {1, 500, 1000, 1001}

WrapInit ==
    \E lead \in WrapLeads, config \in ConfigValues :
        /\ mainPc = "scheduler"
        /\ guiEnabled = OS_CONFIG_ENABLE_GUI
        /\ hw = NoHardware
        /\ pc = [t \in Tasks |-> IF t = "SYS" THEN "delay" ELSE "deleted"]
        /\ delay = [t \in Tasks |-> 0]
        /\ holder = [m \in Mutexes |-> "free"]
        /\ xTickCount = U32Sub(U32(0), U32(lead))
        /\ busyTicks = 0
        /\ sysConfig = config
        /\ currentError = ERROR_FS_INIT_FAILED
        /\ systemUptime = xTickCount
        /\ cpuUtilization = 0
        /\ freeHeapSize = U32(8192)
        /\ lastPerformanceCheck = xTickCount
        /\ calls = [f \in Functions |-> 0]
        /\ age = [t \in Tasks |-> IF t = "SYS" THEN 0 ELSE -1]
        /\ recomputedAt = <<>>
        /\ elapsed = 0
        /\ faultLog = <<>>
        /\ blinked = <<>>
        /\ ext = NoExternal
        /\ probe = NoProbe
        /\ reader = NoReader
        /\ buttonCb = "buttonCallback"
        /\ buttonDown = [b \in Buttons |-> FALSE]
        /\ longSent = [b \in Buttons |-> FALSE]
        /\ transitions = <<>>
        /\ handled = <<>>
        /\ PlayerState("off")

\* the tick, until the next recomputation or MaxWrapRun ticks
WrapTick ==
    /\ recomputedAt = <<>>
    /\ elapsed < MaxWrapRun
    /\ TickStep

WrapNext ==
    \/ SystemTaskUpdate
    \/ SystemTaskDelay
    \/ WrapTick

WrapSpec == WrapInit /\ [][WrapNext]_vars

(***************************************************************************)
(* The Supervisor alone (no card, no audio, no display) and a task of a    *)
(* lower priority that reads the three health figures one after another,   *)
(* at a time of its choosing, with the three getters of system.c.  The     *)
(* reader has the core only while the Supervisor sleeps; the tick may      *)
(* arrive between two of its calls.                                        *)
(***************************************************************************)
ReaderInit ==
    BootState(NoHardware, OS_CONFIG_ENABLE_GUI, NoExternal, NoProbe,
              [pc |-> "uptime", figures |-> <<>>, during |-> <<>>])

\* the reader's next getter call returns value: the figure is kept with the
\* number of system_update executions completed when it was read
ReaderGets(at, value, then) ==
    /\ mainPc = "scheduler"
    /\ Idle
    /\ reader.pc = at
    /\ reader' = [pc |-> then,
                  figures |-> Append(reader.figures, value),
                  during |-> Append(reader.during, calls["system_update"])]
    /\ UNCHANGED <<mainPc, guiEnabled, hw, playerVars, ext, probe, schedVars, sysVars,
                   ghostVars, buttonCb, buttonVars>>

ReaderGetUptime == ReaderGets("uptime", system_get_uptime, "cpu")

ReaderGetCpuUsage == ReaderGets("cpu", system_get_cpu_usage, "heap")

ReaderGetFreeHeap == ReaderGets("heap", system_get_free_heap, "done")

ReaderNext ==
    \/ Main
    \/ systemTask
    \/ FsTaskSdCardInit
    \/ AudioTaskInit
    \/ GuiTaskDisplayInit
    \/ ScenarioTick
    \/ ReaderGetUptime
    \/ ReaderGetCpuUsage
    \/ ReaderGetFreeHeap

ReaderSpec == ReaderInit /\ [][ReaderNext]_vars

(***************************************************************************)
(* The fault channel used as an interface: besides fsTask, any code of the *)
(* application may call system_set_error with any code, between the steps  *)
(* of the Supervisor and of the terminating tasks.                         *)
(***************************************************************************)
SetError ==
    \E error \in ErrorCodes :
        /\ Len(faultLog) < MaxReports
        /\ system_set_error(error, calls)
        /\ UNCHANGED <<mainPc, guiEnabled, hw, playerVars, ext, probe, reader, schedVars, sysConfig,
                       systemUptime, cpuUtilization, freeHeapSize,
                       lastPerformanceCheck, age, recomputedAt, elapsed, buttonCb,
                       buttonVars>>

FaultNext ==
    \/ Main
    \/ systemTask
    \/ FsTaskSdCardInit
    \/ AudioTaskInit
    \/ GuiTaskDisplayInit
    \/ Tick
    \/ SetError

FaultSpec == HealthInit /\ [][FaultNext]_vars

(***************************************************************************)
(* The button bridge.  buttonCallback runs in the context that delivers    *)
(* the event and calls the GUI handler before it returns; it touches none  *)
(* of the task or scheduler state, and is explored from boot on its own.   *)
(***************************************************************************)
HandlerCall(h, button_id) == [handler |-> h, id |-> button_id]

\* variant: the press and release branches are exchanged
buttonCallback_Swapped(button_id, event) ==
    IF event = BUTTON_PRESSED
    THEN <<HandlerCall("gui_handle_button_release", button_id)>>
    ELSE IF event = BUTTON_RELEASED
    THEN <<HandlerCall("gui_handle_button_press", button_id)>>
    ELSE IF event = BUTTON_LONG_PRESS
    THEN <<HandlerCall("gui_handle_button_long_press", button_id)>>
    ELSE <<>>

\* variant: the chain has no branch for a long press
buttonCallback_NoLongPress(button_id, event) ==
    IF event = BUTTON_PRESSED
    THEN <<HandlerCall("gui_handle_button_press", button_id)>>
    ELSE IF event = BUTTON_RELEASED
    THEN <<HandlerCall("gui_handle_button_release", button_id)>>
    ELSE <<>>

\* the handler calls buttonCallback(button_id, event) makes before it returns
buttonCallback(button_id, event) ==
    IF event = BUTTON_PRESSED
    THEN <<HandlerCall("gui_handle_button_press", button_id)>>
    ELSE IF event = BUTTON_RELEASED
    THEN <<HandlerCall("gui_handle_button_release", button_id)>>
    ELSE IF event = BUTTON_LONG_PRESS
    THEN <<HandlerCall("gui_handle_button_long_press", button_id)>>
    ELSE <<>>

\* the button driver classifies one physical transition of button b and
\* invokes the registered callback with it
Deliver(b, event) ==
    /\ buttonCb = "buttonCallback"
    /\ Len(transitions) < MaxTransitions
    /\ transitions' = Append(transitions, <<b, event>>)
    /\ handled' = handled \o buttonCallback(b, event)
    /\ UNCHANGED <<mainPc, guiEnabled, hw, playerVars, ext, probe, reader, schedVars, sysVars, ghostVars,
                   buttonCb>>

ButtonPress ==
    \E b \in Buttons :
        /\ ~buttonDown[b]
        /\ buttonDown' = [buttonDown EXCEPT ![b] = TRUE]
        /\ longSent' = [longSent EXCEPT ![b] = FALSE]
        /\ Deliver(b, BUTTON_PRESSED)

ButtonLongPress ==
    \E b \in Buttons :
        /\ buttonDown[b]
        /\ ~longSent[b]
        /\ longSent' = [longSent EXCEPT ![b] = TRUE]
        /\ UNCHANGED buttonDown
        /\ Deliver(b, BUTTON_LONG_PRESS)

ButtonRelease ==
    \E b \in Buttons :
        /\ buttonDown[b]
        /\ buttonDown' = [buttonDown EXCEPT ![b] = FALSE]
        /\ UNCHANGED longSent
        /\ Deliver(b, BUTTON_RELEASED)

ButtonNext ==
    \/ Main
    \/ ButtonPress
    \/ ButtonLongPress
    \/ ButtonRelease

ButtonSpec == Init /\ [][ButtonNext]_vars

(***************************************************************************)
(* The button bridge together with the tasks.  The button driver delivers  *)
(* an event from the interrupt of the transition: at any point from        *)
(* buttons_init on, whatever main or a task is executing.  The device has  *)
(* no card and no audio codec, with and without a display, in builds with  *)
(* and without the GUI.                                                    *)
(***************************************************************************)
BridgeInit ==
    \E g \in {0, OS_CONFIG_ENABLE_GUI}, d \in BOOLEAN :
        /\ (g = 0 => ~d)
        /\ Boot([NoHardware EXCEPT !.display = d, !.gui = d], g)

BridgePress == Len(transitions) < MaxBridgeEvents /\ ButtonPress

BridgeLongPress == Len(transitions) < MaxBridgeEvents /\ ButtonLongPress

BridgeRelease == Len(transitions) < MaxBridgeEvents /\ ButtonRelease

BridgeNext ==
    \/ Main
    \/ systemTask
    \/ FsTaskSdCardInit
    \/ AudioTaskInit
    \/ guiTask
    \/ ScenarioTick
    \/ BridgePress
    \/ BridgeLongPress
    \/ BridgeRelease

BridgeSpec == BridgeInit /\ [][BridgeNext]_vars

(***************************************************************************)
(* examples/music_player/music_player.c: another program built on the same *)
(* drivers and on system.c.  Its main() brings the hardware up, creates    *)
(* audioMutex and the player task and starts the scheduler;                *)
(* handle_button_event is the callback given to buttons_init.  The button  *)
(* driver is not part of the sources: the handler waits for audioMutex, so *)
(* it runs in a context that can wait, and its steps and those of the      *)
(* player task are taken in any order.  Events are taken from the start of *)
(* the scheduler on, one at a time.  Time is left out: whether the 500 ms  *)
(* of the player task's loop have passed is open at every iteration.  The  *)
(* calls that only draw on the display change no state and are left out.   *)
(***************************************************************************)
firmwareVars == <<mainPc, guiEnabled, hw, ext, probe, reader, schedVars,
                  sysVars, ghostVars, buttonCb, buttonVars>>

PositionSamples == {0, 5}

DurationSamples == {0, 5}

\* main() of the example moves from one statement to the next
PlayerMainStep(from, to) ==
    /\ playerMain = from
    /\ playerMain' = to

\* gpio_init(); buttons_init(handle_button_event);
PlayerMainHardwareInit ==
    /\ PlayerMainStep("gpio_init", "system_init")
    /\ buttonCb' = "handle_button_event"
    /\ calls' = [calls EXCEPT !["gpio_init"] = @ + 1, !["buttons_init"] = @ + 1]
    /\ UNCHANGED <<mainPc, guiEnabled, hw, ext, probe, reader, schedVars,
                   sysVars, age, recomputedAt, elapsed, faultLog, blinked,
                   buttonVars>>
    /\ UNCHANGED <<ctxPc, ctxRet, ctxTmp, playerEvent, audioMutex, songCount,
                   currentSongIndex, currentState, currentPosition,
                   currentDuration, currentVolume, driverCall>>

\* system_init(&sysConfig) with the configuration main() fills in
PlayerMainSystemInit ==
    /\ PlayerMainStep("system_init", "audio_init")
    /\ sysConfig' = [criticalHeapThreshold |-> U32(4096), enableErrorLed |-> 1]
    /\ Called("system_init")
    /\ UNCHANGED <<mainPc, guiEnabled, hw, ext, probe, reader, schedVars,
                   currentError, systemUptime, cpuUtilization, freeHeapSize,
                   lastPerformanceCheck, age, recomputedAt, elapsed, faultLog,
                   blinked, buttonCb, buttonVars>>
    /\ UNCHANGED <<ctxPc, ctxRet, ctxTmp, playerEvent, audioMutex, songCount,
                   currentSongIndex, currentState, currentPosition,
                   currentDuration, currentVolume, driverCall>>

\* a bring-up call of main() whose outcome only selects the next statement
PlayerMainCall(from, f, to) ==
    /\ PlayerMainStep(from, to)
    /\ Called(f)
    /\ UNCHANGED <<mainPc, guiEnabled, hw, ext, probe, reader, schedVars,
                   sysVars, age, recomputedAt, elapsed, faultLog, blinked,
                   buttonCb, buttonVars>>
    /\ UNCHANGED <<ctxPc, ctxRet, ctxTmp, playerEvent, audioMutex, songCount,
                   currentSongIndex, currentState, currentPosition,
                   currentDuration, currentVolume, driverCall>>

\* if (audio_init() != AUDIO_OK) { printf } : goes on either way
PlayerMainAudioInit == PlayerMainCall("audio_init", "audio_init", "sd_card_init")

\* variant: the two bring-up calls are both made before the test
PlayerMainSdCardInit_NoShortCircuit ==
    PlayerMainCall("sd_card_init", "sd_card_init", "fs_init")

\* sd_card_init() != SD_CARD_OK || ... : fs_init is reached with a card only
PlayerMainSdCardInit ==
    PlayerMainCall("sd_card_init", "sd_card_init",
                   IF hw.sd THEN "fs_init" ELSE "set_error")

\* ... || fs_init() != FS_OK
PlayerMainFsInit ==
    PlayerMainCall("fs_init", "fs_init",
                   IF hw.fs THEN "display_init" ELSE "set_error")

\* system_set_error(ERROR_FS_INIT_FAILED) before the loop that never ends
PlayerMainSetError ==
    /\ PlayerMainStep("set_error", "fatal_loop")
    /\ system_set_error(ERROR_FS_INIT_FAILED, calls)
    /\ UNCHANGED <<mainPc, guiEnabled, hw, ext, probe, reader, schedVars,
                   sysConfig, systemUptime, cpuUtilization, freeHeapSize,
                   lastPerformanceCheck, age, recomputedAt, elapsed, buttonCb,
                   buttonVars>>
    /\ UNCHANGED <<ctxPc, ctxRet, ctxTmp, playerEvent, audioMutex, songCount,
                   currentSongIndex, currentState, currentPosition,
                   currentDuration, currentVolume, driverCall>>

\* while (1) { vTaskDelay(1000); } with no scheduler started and no task
\* created: the call returns and the loop goes round, which changes nothing,
\* or it faults
PlayerMainFatalLoop ==
    /\ PlayerMainStep("fatal_loop", "fault")
    /\ UNCHANGED firmwareVars
    /\ UNCHANGED <<ctxPc, ctxRet, ctxTmp, playerEvent, audioMutex, songCount,
                   currentSongIndex, currentState, currentPosition,
                   currentDuration, currentVolume, driverCall>>

\* display_init(); the result is ignored
PlayerMainDisplayInit ==
    PlayerMainCall("display_init", "display_init", "player_init")

\* music_player_init(): xSemaphoreCreateMutex, xTaskCreate(music_player_task)
PlayerMainPlayerInit ==
    /\ PlayerMainStep("player_init", "start_scheduler")
    /\ audioMutex' = "free"
    /\ ctxPc' = [ctxPc EXCEPT !["MUSIC"] = "populate"]
    /\ UNCHANGED firmwareVars
    /\ UNCHANGED <<ctxRet, ctxTmp, playerEvent, songCount, currentSongIndex,
                   currentState, currentPosition, currentDuration,
                   currentVolume, driverCall>>

\* vTaskStartScheduler()
PlayerMainStartScheduler ==
    /\ PlayerMainStep("start_scheduler", "scheduler")
    /\ UNCHANGED firmwareVars
    /\ UNCHANGED <<ctxPc, ctxRet, ctxTmp, playerEvent, audioMutex, songCount,
                   currentSongIndex, currentState, currentPosition,
                   currentDuration, currentVolume, driverCall>>

\* context c moves from one statement to the next; statements that call no
\* audio driver function leave driverCall empty
CtxStep(c, from, to) ==
    /\ playerMain = "scheduler"
    /\ ctxPc[c] = from
    /\ ctxPc' = [ctxPc EXCEPT ![c] = to]
    /\ UNCHANGED <<playerMain, firmwareVars>>

\* xSemaphoreTake(audioMutex, portMAX_DELAY) returning to context c
CtxTake(c, from, to) ==
    /\ CtxStep(c, from, to)
    /\ audioMutex = "free"
    /\ audioMutex' = c
    /\ driverCall' = NoCall
    /\ UNCHANGED <<ctxRet, ctxTmp, playerEvent, songCount, currentSongIndex,
                   currentState, currentPosition, currentDuration,
                   currentVolume>>

\* variant: the mutex is kept
CtxGive_Keep(c, from, to) ==
    /\ CtxStep(c, from, to)
    /\ driverCall' = NoCall
    /\ UNCHANGED <<audioMutex, ctxRet, ctxTmp, playerEvent, songCount,
                   currentSongIndex, currentState, currentPosition,
                   currentDuration, currentVolume>>

\* xSemaphoreGive(audioMutex) by context c
CtxGive(c, from, to) ==
    /\ CtxStep(c, from, to)
    /\ audioMutex' = "free"
    /\ driverCall' = NoCall
    /\ UNCHANGED <<ctxRet, ctxTmp, playerEvent, songCount, currentSongIndex,
                   currentState, currentPosition, currentDuration,
                   currentVolume>>

\* play_song: audio_stop()
PlaySongStop(c) ==
    /\ CtxStep(c, "play_stop", "play_give1")
    /\ driverCall' = <<DriverCall("audio_stop", 0)>>
    /\ UNCHANGED <<ctxRet, ctxTmp, playerEvent, audioMutex, songCount,
                   currentSongIndex, currentState, currentPosition,
                   currentDuration, currentVolume>>

\* play_song: audio_play_file and what follows it under the mutex
PlaySongFile(c) ==
    /\ CtxStep(c, "play_file", "play_give2")
    /\ \E status \in {AUDIO_OK, AUDIO_ERROR_IO} :
         IF status = AUDIO_OK
         THEN \E duration \in DurationSamples :
                /\ currentState' = AUDIO_STATE_PLAYING
                /\ currentDuration' = duration
                /\ currentPosition' = 0
                /\ driverCall' = <<DriverCall("audio_play_file", status),
                                   DriverCall("audio_get_duration", duration),
                                   DriverCall("audio_set_volume",
                                              currentVolume)>>
         ELSE /\ currentState' = AUDIO_STATE_STOPPED
              /\ driverCall' = <<DriverCall("audio_play_file", status)>>
              /\ UNCHANGED <<currentDuration, currentPosition>>
    /\ UNCHANGED <<ctxRet, ctxTmp, playerEvent, audioMutex, songCount,
                   currentSongIndex, currentVolume>>

\* play_song: two guarded sections, then the return to the caller
play_song(c) ==
    \/ CtxTake(c, "play_take1", "play_stop")
    \/ PlaySongStop(c)
    \/ CtxGive(c, "play_give1", "play_take2")
    \/ CtxTake(c, "play_take2", "play_file")
    \/ PlaySongFile(c)
    \/ CtxGive(c, "play_give2", ctxRet[c])

\* a statement of context c that touches none of the statics
CtxLocal(c, from, to) ==
    /\ CtxStep(c, from, to)
    /\ driverCall' = NoCall
    /\ UNCHANGED <<ctxRet, ctxTmp, playerEvent, audioMutex, songCount,
                   currentSongIndex, currentState, currentPosition,
                   currentDuration, currentVolume>>

\* next_song: if (songCount == 0) return; then the load of currentSongIndex
NextSongLoad(c) ==
    /\ CtxStep(c, "next", IF songCount = 0 THEN ctxRet[c] ELSE "next_store")
    /\ ctxTmp' = [ctxTmp EXCEPT ![c] = currentSongIndex]
    /\ driverCall' = NoCall
    /\ UNCHANGED <<ctxRet, playerEvent, audioMutex, songCount,
                   currentSongIndex, currentState, currentPosition,
                   currentDuration, currentVolume>>

\* next_song: currentSongIndex = (currentSongIndex + 1) % songCount
NextSongStore(c) ==
    /\ CtxStep(c, "next_store", "play_take1")
    /\ currentSongIndex' = (ctxTmp[c] + 1) % songCount
    /\ driverCall' = NoCall
    /\ UNCHANGED <<ctxRet, ctxTmp, playerEvent, audioMutex, songCount,
                   currentState, currentPosition, currentDuration,
                   currentVolume>>

next_song(c) == NextSongLoad(c) \/ NextSongStore(c)

\* prev_song: if (songCount == 0) return; then the test currentSongIndex > 0
PrevSongTest(c) ==
    /\ CtxStep(c, "prev",
               IF songCount = 0 THEN ctxRet[c]
               ELSE IF currentSongIndex > 0 THEN "prev_dec" ELSE "prev_wrap")
    /\ ctxTmp' = [ctxTmp EXCEPT ![c] = currentSongIndex]
    /\ driverCall' = NoCall
    /\ UNCHANGED <<ctxRet, playerEvent, audioMutex, songCount,
                   currentSongIndex, currentState, currentPosition,
                   currentDuration, currentVolume>>

\* prev_song: currentSongIndex = currentSongIndex - 1.  The variable is not
\* volatile and no lock is held: the build may use the value loaded for the
\* test or load it again.
PrevSongDec(c) ==
    /\ CtxStep(c, "prev_dec", "play_take1")
    /\ currentSongIndex' \in {ctxTmp[c] - 1, currentSongIndex - 1}
    /\ driverCall' = NoCall
    /\ UNCHANGED <<ctxRet, ctxTmp, playerEvent, audioMutex, songCount,
                   currentState, currentPosition, currentDuration,
                   currentVolume>>

\* prev_song: currentSongIndex = songCount - 1
PrevSongWrap(c) ==
    /\ CtxStep(c, "prev_wrap", "play_take1")
    /\ currentSongIndex' = songCount - 1
    /\ driverCall' = NoCall
    /\ UNCHANGED <<ctxRet, ctxTmp, playerEvent, audioMutex, songCount,
                   currentState, currentPosition, currentDuration,
                   currentVolume>>

prev_song(c) == PrevSongTest(c) \/ PrevSongDec(c) \/ PrevSongWrap(c)

\* populate_playlist: songCount = 0
PlayerTaskPopulate ==
    /\ CtxStep("MUSIC", "populate", "readdir")
    /\ songCount' = 0
    /\ driverCall' = NoCall
    /\ UNCHANGED <<ctxRet, ctxTmp, playerEvent, audioMutex, currentSongIndex,
                   currentState, currentPosition, currentDuration,
                   currentVolume>>

\* populate_playlist: one more audio file found, songCount++
PlayerTaskReaddir ==
    /\ songCount < MaxSongs
    /\ CtxStep("MUSIC", "readdir", "readdir")
    /\ songCount' = songCount + 1
    /\ driverCall' = NoCall
    /\ UNCHANGED <<ctxRet, ctxTmp, playerEvent, audioMutex, currentSongIndex,
                   currentState, currentPosition, currentDuration,
                   currentVolume>>

\* if (songCount == 0) { ... } else play_song(songList[0]);
PlayerTaskFirst ==
    /\ CtxStep("MUSIC", "first", IF songCount = 0 THEN "loop" ELSE "play_take1")
    /\ ctxRet' = [ctxRet EXCEPT !["MUSIC"] = "loop"]
    /\ driverCall' = NoCall
    /\ UNCHANGED <<ctxTmp, playerEvent, audioMutex, songCount,
                   currentSongIndex, currentState, currentPosition,
                   currentDuration, currentVolume>>

\* if (currentTime - lastUpdate >= 500) { if (currentState == PLAYING) ...
PlayerTaskLoop ==
    \E due \in BOOLEAN :
        CtxLocal("MUSIC", "loop",
                 IF due /\ currentState = AUDIO_STATE_PLAYING
                 THEN "pos_take" ELSE "sleep")

\* audio_get_position(&currentPosition)
PlayerTaskPosGet ==
    /\ CtxStep("MUSIC", "pos_get", "pos_give")
    /\ \E position \in PositionSamples :
         /\ currentPosition' = position
         /\ driverCall' = <<DriverCall("audio_get_position", position)>>
    /\ UNCHANGED <<ctxRet, ctxTmp, playerEvent, audioMutex, songCount,
                   currentSongIndex, currentState, currentDuration,
                   currentVolume>>

\* if (currentPosition >= currentDuration && currentDuration > 0) next_song();
PlayerTaskCheck ==
    /\ CtxStep("MUSIC", "check",
               IF currentPosition >= currentDuration /\ currentDuration > 0
               THEN "next" ELSE "sleep")
    /\ ctxRet' = [ctxRet EXCEPT !["MUSIC"] = "sleep"]
    /\ driverCall' = NoCall
    /\ UNCHANGED <<ctxTmp, playerEvent, audioMutex, songCount,
                   currentSongIndex, currentState, currentPosition,
                   currentDuration, currentVolume>>

\* populate_playlist (which returns when fs_opendir fails or the entries end),
\* the first song, then the loop with its guarded position read and its
\* vTaskDelay(pdMS_TO_TICKS(10))
music_player_task ==
    \/ PlayerTaskPopulate
    \/ PlayerTaskReaddir
    \/ CtxLocal("MUSIC", "readdir", "first")
    \/ PlayerTaskFirst
    \/ PlayerTaskLoop
    \/ CtxTake("MUSIC", "pos_take", "pos_get")
    \/ PlayerTaskPosGet
    \/ CtxGive("MUSIC", "pos_give", "check")
    \/ PlayerTaskCheck
    \/ CtxLocal("MUSIC", "sleep", "loop")
    \/ next_song("MUSIC")
    \/ play_song("MUSIC")

\* the statement handle_button_event goes to for an event of button id
HandlerBranch(id, kind) ==
    IF kind = BUTTON_PRESSED
    THEN CASE id = BUTTON_PLAY_PAUSE ->
                 IF currentState = AUDIO_STATE_PLAYING THEN "pause_take"
                 ELSE IF currentState = AUDIO_STATE_PAUSED THEN "resume_take"
                 ELSE IF currentState = AUDIO_STATE_STOPPED /\ songCount > 0
                 THEN "play_take1"
                 ELSE "return"
           [] id = BUTTON_NEXT -> "next"
           [] id = BUTTON_PREV -> "prev"
           [] id = BUTTON_VOL_UP ->
                 IF currentVolume < 100 THEN "vol_take" ELSE "return"
           [] id = BUTTON_VOL_DOWN ->
                 IF currentVolume >= 5 THEN "vol_take" ELSE "return"
           [] OTHER -> "return"
    ELSE IF kind = BUTTON_LONG_PRESS /\ id = BUTTON_PLAY_PAUSE
    THEN "stop_take"
    ELSE "return"

\* variant: volume up is not tested against 100
HandlerVolume_Unchecked(id, kind) ==
    IF kind = BUTTON_PRESSED /\ id = BUTTON_VOL_UP
    THEN (currentVolume + 5) % 256
    ELSE IF kind = BUTTON_PRESSED /\ id = BUTTON_VOL_DOWN
            /\ currentVolume >= 5
    THEN currentVolume - 5
    ELSE currentVolume

\* currentVolume (uint8_t) as handle_button_event leaves it before it takes
\* the mutex
HandlerVolume(id, kind) ==
    IF kind = BUTTON_PRESSED /\ id = BUTTON_VOL_UP /\ currentVolume < 100
    THEN (currentVolume + 5) % 256
    ELSE IF kind = BUTTON_PRESSED /\ id = BUTTON_VOL_DOWN
            /\ currentVolume >= 5
    THEN currentVolume - 5
    ELSE currentVolume

\* handle_button_event(id, kind) is called with an event of one of the
\* given buttons: the tests up to the first xSemaphoreTake or call
HandleButtonEvent(buttons) ==
    \E id \in buttons, kind \in {BUTTON_PRESSED, BUTTON_RELEASED,
                                BUTTON_LONG_PRESS} :
        /\ CtxStep("BTN", "idle", HandlerBranch(id, kind))
        /\ playerEvent' = [id |-> id, kind |-> kind]
        /\ currentVolume' = HandlerVolume(id, kind)
        /\ ctxRet' = [ctxRet EXCEPT !["BTN"] = "return"]
        /\ driverCall' = NoCall
        /\ UNCHANGED <<ctxTmp, audioMutex, songCount, currentSongIndex,
                       currentState, currentPosition, currentDuration>>

\* the statements of a guarded section of handle_button_event that call the
\* driver and assign the playback state
HandlerSection(from, fn, state, position) ==
    /\ CtxStep("BTN", from, "give")
    /\ driverCall' = <<DriverCall(fn, 0)>>
    /\ currentState' = state
    /\ currentPosition' = position
    /\ UNCHANGED <<ctxRet, ctxTmp, playerEvent, audioMutex, songCount,
                   currentSongIndex, currentDuration, currentVolume>>

\* audio_pause(); currentState = AUDIO_STATE_PAUSED;
HandlerPause ==
    HandlerSection("pause", "audio_pause", AUDIO_STATE_PAUSED, currentPosition)

\* audio_resume(); currentState = AUDIO_STATE_PLAYING;
HandlerResume ==
    HandlerSection("resume", "audio_resume", AUDIO_STATE_PLAYING,
                   currentPosition)

\* audio_stop(); currentState = AUDIO_STATE_STOPPED; currentPosition = 0;
HandlerStop == HandlerSection("stop", "audio_stop", AUDIO_STATE_STOPPED, 0)

\* audio_set_volume(currentVolume)
HandlerVol ==
    /\ CtxStep("BTN", "vol", "give")
    /\ driverCall' = <<DriverCall("audio_set_volume", currentVolume)>>
    /\ UNCHANGED <<ctxRet, ctxTmp, playerEvent, audioMutex, songCount,
                   currentSongIndex, currentState, currentPosition,
                   currentDuration, currentVolume>>

\* the xSemaphoreGive that ends each guarded section of the handler, and the
\* handler's return to the button driver
HandlerLeave ==
    \/ CtxGive("BTN", "give", "return")
    \/ CtxLocal("BTN", "return", "idle")

(***************************************************************************)
(* The example from main() on, every bring-up outcome, no button pressed.  *)
(***************************************************************************)
PlayerHardware == {h \in Hardware : h.gui = h.display}

PlayerStartInit ==
    \E h \in PlayerHardware :
        /\ Statics(h, OS_CONFIG_ENABLE_GUI, NoExternal, NoProbe, NoReader)
        /\ PlayerState("gpio_init")

PlayerStart ==
    \/ PlayerMainHardwareInit
    \/ PlayerMainSystemInit
    \/ PlayerMainAudioInit
    \/ PlayerMainSdCardInit
    \/ PlayerMainFsInit
    \/ PlayerMainDisplayInit
    \/ PlayerMainPlayerInit
    \/ PlayerMainStartScheduler

PlayerStartNext ==
    \/ PlayerStart
    \/ PlayerMainSetError
    \/ PlayerMainFatalLoop
    \/ music_player_task

PlayerStartSpec == PlayerStartInit /\ [][PlayerStartNext]_vars

(***************************************************************************)
(* The example on a device where every bring-up succeeds, with the buttons *)
(* play/pause, next and previous in use.                                   *)
(***************************************************************************)
PlayerInit ==
    /\ Statics(AllHardware, OS_CONFIG_ENABLE_GUI, NoExternal, NoProbe, NoReader)
    /\ PlayerState("gpio_init")

PlaybackButtons == {BUTTON_PLAY_PAUSE, BUTTON_NEXT, BUTTON_PREV}

PlayerNext ==
    \/ PlayerStart
    \/ music_player_task
    \/ HandleButtonEvent(PlaybackButtons)
    \/ CtxTake("BTN", "pause_take", "pause")
    \/ HandlerPause
    \/ CtxTake("BTN", "resume_take", "resume")
    \/ HandlerResume
    \/ CtxTake("BTN", "stop_take", "stop")
    \/ HandlerStop
    \/ HandlerLeave
    \/ next_song("BTN")
    \/ prev_song("BTN")
    \/ play_song("BTN")

PlayerSpec == PlayerInit /\ [][PlayerNext]_vars

(***************************************************************************)
(* The same device with the two volume buttons in use.                     *)
(***************************************************************************)
VolumeButtons == {BUTTON_VOL_UP, BUTTON_VOL_DOWN}

VolumeNext ==
    \/ PlayerStart
    \/ music_player_task
    \/ HandleButtonEvent(VolumeButtons)
    \/ CtxTake("BTN", "vol_take", "vol")
    \/ HandlerVol
    \/ HandlerLeave

VolumeSpec == PlayerInit /\ [][VolumeNext]_vars

(***************************************************************************)
(* Properties.                                                             *)
(***************************************************************************)
Held(t) == {m \in Mutexes : holder[m] = t}

\* C1: no task ever holds more than one of sdCardMutex, displayMutex and
\* audioMutex, so no mutex is acquired while another one is held.
C1_AtMostOneLock == \A t \in Tasks : Cardinality(Held(t)) <= 1

\* all three peripheral tasks have been through their loop and one of them
\* is inside its guarded section
C1_Witness ==
    /\ calls["fs_update"] > 0
    /\ calls["audio_update"] > 0
    /\ calls["gui_update"] > 0
    /\ \E t \in Tasks : Held(t) # {}

\* C2: when sd_card_init fails the fault code becomes ERROR_FS_INIT_FAILED
\* and never ERROR_FS_MOUNT_FAILED, fs_init is never called, and fsTask never
\* takes sdCardMutex nor calls fs_update.
C2_StorageInitFailure ==
    ~hw.sd =>
        /\ currentError # ERROR_FS_MOUNT_FAILED
        /\ calls["fs_init"] = 0
        /\ calls["fs_update"] = 0
        /\ holder["sdCardMutex"] # "FS"
        /\ calls["sd_card_init"] > 0 =>
              /\ currentError = ERROR_FS_INIT_FAILED
              /\ pc["FS"] = "deleted"

\* the card failed some ticks ago while another task is still being served
C2_Witness ==
    /\ ~hw.sd
    /\ calls["sd_card_init"] = 1
    /\ calls["system_set_error"] = 1
    /\ calls["audio_update"] > 2

\* C5: a mutex is held only across the service call: a task that sleeps in
\* vTaskDelay, is in bring-up, waits for its mutex or has been deleted holds
\* no mutex, and the only mutex a task holds is its own.
C5_LockOnlyAroundServiceCall ==
    \A t \in Tasks :
        /\ (delay[t] > 0 \/ pc[t] \notin {"update", "give"}) => Held(t) = {}
        /\ t # "SYS" => Held(t) \subseteq {OwnMutex[t]}
        /\ t = "SYS" => Held(t) = {}

\* fsTask sleeps after a service call it made under its mutex
C5_Witness ==
    /\ delay["FS"] > 0
    /\ calls["fs_update"] > 0
    /\ holder["sdCardMutex"] = "free"

\* C6: every task whose bring-up succeeded makes its service call at least
\* once per cadence interval (10, 50, 5 and 16 ticks): never more than the
\* cadence elapses since its last service call.
C6_ServiceWithinCadence == \A t \in Tasks : age[t] <= Cadence[t]

\* task t has just made its service call
Serviced(t) == pc[t] = (IF t = "SYS" THEN "delay" ELSE "give")

\* task t sleeps between two iterations and the tick that ends its sleep lies
\* within the explored ticks
SleepsWithinHorizon(t) ==
    /\ delay[t] > 0
    /\ U32Ge(U32(MaxTick), U32Add(xTickCount, U32(delay[t])))

MountFailed == hw.sd /\ ~hw.fs /\ calls["fs_init"] > 0

\* C3: when sd_card_init succeeds and fs_init fails, the fault code becomes
\* ERROR_FS_MOUNT_FAILED, fsTask ends without ever calling fs_update, and
\* systemTask, audioTask and guiTask go on making their service calls: each
\* sleep of theirs is followed by another service call.
C3_MountFailure ==
    /\ [](hw.sd /\ ~hw.fs =>
            /\ calls["fs_update"] = 0
            /\ holder["sdCardMutex"] # "FS"
            /\ calls["fs_init"] > 0 =>
                  /\ currentError = ERROR_FS_MOUNT_FAILED
                  /\ pc["FS"] = "deleted")
    /\ \A t \in {"SYS", "AUDIO", "GUI"} :
          (MountFailed /\ SleepsWithinHorizon(t)) ~> Serviced(t)

\* the mount failed and every other task has since been through its loop
\* more than once
C3_Witness ==
    /\ MountFailed
    /\ currentError = ERROR_FS_MOUNT_FAILED
    /\ calls["system_update"] > 1
    /\ calls["audio_update"] > 1
    /\ calls["gui_update"] > 1

OptionalFailed ==
    \/ ~hw.audio /\ calls["audio_init"] > 0
    \/ ~hw.display /\ calls["display_init"] > 0

\* C4: a failing audio_init or display_init leaves the fault code as it is,
\* and after such a failure systemTask and fsTask go on making their service
\* calls: each sleep of theirs is followed by another service call.
C4_OptionalFailure ==
    /\ [][(\/ calls'["audio_init"] # calls["audio_init"]
           \/ calls'["display_init"] # calls["display_init"])
          => currentError' = currentError]_vars
    /\ \A t \in {"SYS", "FS"} :
          (OptionalFailed /\ SleepsWithinHorizon(t)) ~> Serviced(t)

\* audio and display both failed, the fault code is untouched and both
\* remaining tasks have been served again
C4_Witness ==
    /\ ~hw.audio /\ pc["AUDIO"] = "deleted"
    /\ guiEnabled = 1 /\ ~hw.display /\ pc["GUI"] = "deleted"
    /\ currentError = ERROR_NONE
    /\ calls["system_update"] > 1
    /\ calls["fs_update"] > 1

\* C7: the CPU utilisation stored by system_update and returned by
\* system_get_cpu_usage is within 0..100 after every recomputation, whatever
\* counters the scheduler reports.
C7_CpuWithinPercent == system_get_cpu_usage \in 0 .. 100

Apart(s) ==
    \A i \in 1 .. Len(s) - 1 :
        U32Ge(U32Sub(s[i + 1], s[i]), U32(PERFORMANCE_CHECK_INTERVAL))

\* C8: any two calls of calculate_cpu_usage from system_update are at least
\* 1000 ticks apart, however often system_update runs in between.
C8_RecomputationsApart == Apart(recomputedAt)

\* two recomputations have happened and system_update ran far more often
C8_Witness ==
    /\ Len(recomputedAt) >= 2
    /\ calls["system_update"] > 100

\* C9: memory_saving_mode is called exactly once by a system_update that
\* recomputes the health figures while the free heap it read is below the
\* threshold, and not at all by any other system_update or any other step.
C9_HookPerRecomputation ==
    [][LET recomputed == Len(recomputedAt') > Len(recomputedAt)
           low == U32Lt(freeHeapSize', sysConfig'.criticalHeapThreshold)
       IN  calls'["memory_saving_mode"] - calls["memory_saving_mode"] =
              IF recomputed /\ low THEN 1 ELSE 0]_vars

\* the heap was low at two successive recomputations and the hook ran at
\* each of them, and at none of the many other system_update calls
C9_Witness ==
    /\ Len(recomputedAt) = 2
    /\ calls["memory_saving_mode"] = 2
    /\ calls["system_update"] > 100

EventOf(h) ==
    CASE h = "gui_handle_button_press" -> BUTTON_PRESSED
      [] h = "gui_handle_button_release" -> BUTTON_RELEASED
      [] h = "gui_handle_button_long_press" -> BUTTON_LONG_PRESS

\* the events of button b in the order the handlers were invoked
HandledOf(b) ==
    LET sel == SelectSeq(handled, LAMBDA c : c.id = b)
    IN  [i \in 1 .. Len(sel) |-> EventOf(sel[i].handler)]

\* the events of button b in the order the transitions occurred
TransitionsOf(b) ==
    LET sel == SelectSeq(transitions, LAMBDA e : e[1] = b)
    IN  [i \in 1 .. Len(sel) |-> sel[i][2]]

\* C10: the handlers of one button are invoked in the order of its physical
\* transitions: for a press followed by a release of the same button the
\* press handler has run before the release handler.
C10_DeliveryOrder == \A b \in Buttons : HandledOf(b) = TransitionsOf(b)

\* a button was pressed and released while the other one was pressed in
\* between
C10_Witness ==
    /\ Len(handled) >= 3
    /\ handled[1] = HandlerCall("gui_handle_button_press", 0)
    /\ handled[2] = HandlerCall("gui_handle_button_press", 1)
    /\ handled[3] = HandlerCall("gui_handle_button_release", 0)

C12_LastWriteWins ==
    /\ Len(faultLog) = calls["system_set_error"]
    /\ system_get_error =
          IF faultLog = <<>> THEN ERROR_NONE ELSE faultLog[Len(faultLog)]

\* two different codes were reported, the storage task has terminated and
\* the Supervisor has run system_init and system_update since
C12_Witness ==
    /\ Len(faultLog) = 2
    /\ faultLog[1] # ERROR_NONE
    /\ faultLog[2] # faultLog[1]
    /\ pc["FS"] = "deleted"
    /\ calls["system_update"] >= 2

\* C13: for every event the button driver delivers, buttonCallback invokes
\* exactly one GUI handler, the one of the event's kind, with the same button
\* id, before the delivery returns: after every delivery the handler calls
\* match the delivered events one to one (none pending, doubled or dropped).
C13_OneHandlerPerEvent ==
    /\ Len(handled) = Len(transitions)
    /\ \A i \in 1..Len(transitions) :
          /\ handled[i].id = transitions[i][1]
          /\ handled[i].handler =
                CASE transitions[i][2] = BUTTON_PRESSED ->
                         "gui_handle_button_press"
                  [] transitions[i][2] = BUTTON_RELEASED ->
                         "gui_handle_button_release"
                  [] transitions[i][2] = BUTTON_LONG_PRESS ->
                         "gui_handle_button_long_press"

\* each of the three kinds has been delivered, for two different buttons
C13_Witness ==
    /\ \A e \in {BUTTON_PRESSED, BUTTON_RELEASED, BUTTON_LONG_PRESS} :
          \E i \in 1..Len(transitions) : transitions[i][2] = e
    /\ \E i, j \in 1..Len(transitions) : transitions[i][1] # transitions[j][1]

\* a step of task t's own code: its position changes
Steps(t) == mainPc = "scheduler" /\ pc'[t] # pc[t]

BetweenRecomputations ==
    /\ Len(recomputedAt) >= 1
    /\ Len(recomputedAt') = Len(recomputedAt)

\* C15: between two consecutive health recomputations the whole snapshot is
\* stale: the values of system_get_uptime, system_get_cpu_usage and
\* system_get_free_heap do not change, whatever system_update calls happen.
C15_SnapshotStale ==
    [][BetweenRecomputations
         => /\ system_get_uptime' = system_get_uptime
            /\ system_get_cpu_usage' = system_get_cpu_usage
            /\ system_get_free_heap' = system_get_free_heap]_vars

\* C15 as the code has it: between two consecutive health recomputations
\* only the CPU figure is stale; every system_update call in between sets
\* the uptime to the current tick time and the free-heap figure to the
\* value the allocator reports.
C15_OnlyCpuStale ==
    [][BetweenRecomputations
         => /\ system_get_cpu_usage' = system_get_cpu_usage
            /\ calls'["system_update"] # calls["system_update"]
                  => /\ system_get_uptime' =
                           U32DivSmall(xTickCount, SYSTEM_TICK_RATE_HZ \div 1000)
                     /\ system_get_free_heap' \in HeapSamples]_vars

\* after the first recomputation, which produced a non-zero CPU figure,
\* later system_update calls have moved the uptime on and changed the
\* free-heap figure
C15_Witness ==
    /\ Len(recomputedAt) = 1
    /\ system_get_cpu_usage # 0
    /\ U32Ge(system_get_uptime, U32Add(recomputedAt[1], U32(2 * Cadence["SYS"])))
    /\ system_get_free_heap = U32(1024)

\* the parties inside a section guarded by mutex m, by their positions: the
\* owning task between its take and its give, the external caller between
\* its take and its give
InSection(m) ==
    {t \in Tasks \ {"SYS"} : OwnMutex[t] = m /\ pc[t] \in {"update", "give"}}
        \cup (IF ext.mutex = m /\ ext.inside THEN {"EXT"} ELSE {})

\* C16: with an external caller that uses a peripheral's mutex too, at most
\* one party is inside a section guarded by that mutex, and the owning task
\* makes its service call only while it holds the mutex: the service call
\* never overlaps the external caller's guarded section.
C16_NoOverlapWithExternal ==
    \A m \in Mutexes :
        /\ Cardinality(InSection(m)) <= 1
        /\ \A p \in InSection(m) : holder[m] = p

\* the owning task has been through its loop before and now waits for the
\* mutex while the external caller is inside its section
C16_Witness ==
    \E t \in Tasks \ {"SYS"} :
        /\ ext.mutex = OwnMutex[t]
        /\ ext.inside
        /\ Blocked(t)
        /\ calls[ServiceCall[t]] >= 1

\* task t sleeps and the tick that ends its sleep lies within the ticks
\* explored in the scenarios
SleepsWithinScenario(t) ==
    /\ delay[t] > 0
    /\ U32Ge(U32(MaxScenarioTick), U32Add(xTickCount, U32(delay[t])))

\* C17: when an external caller takes one mutex and keeps it for ever, the
\* owning task stays in its acquire from then on (no timeout, no service
\* call without the mutex) and holds no other mutex, and every other task
\* goes on making its service calls: each sleep of theirs is followed by
\* another service call.
C17_ExternalHoldsForever ==
    /\ [][\A t \in Tasks \ {"SYS"} :
            (Blocked(t) /\ ext.inside)
                => /\ ext'.inside
                   /\ pc'[t] = "take"
                   /\ calls'[ServiceCall[t]] = calls[ServiceCall[t]]]_vars
    /\ [](\A t \in Tasks \ {"SYS"} : Blocked(t) => Held(t) = {})
    /\ \A u \in Tasks :
          (/\ ext.inside
           /\ (u = "SYS" \/ OwnMutex[u] # ext.mutex)
           /\ SleepsWithinScenario(u)) ~> Serviced(u)

\* the external caller has kept audioMutex for three audio periods: the
\* audio task is still waiting and the other tasks have gone on
C17_Witness ==
    /\ ext.mutex = "audioMutex"
    /\ ext.inside
    /\ Blocked("AUDIO")
    /\ age["AUDIO"] >= 3 * Cadence["AUDIO"]
    /\ calls["system_update"] >= 3
    /\ calls["gui_update"] >= 2
    /\ calls["fs_update"] >= 1

PlatformUp == calls["system_init"] > 0

\* C19: the platform bring-up completes first and only then are the four
\* tasks created and the button callback registered: as long as system_init
\* has not completed no task exists and no callback is registered.
C19_BringUpFirst ==
    ~PlatformUp
        => /\ buttonCb = "none"
           /\ \A t \in Tasks : pc[t] = "absent"

\* C19 as the code has it: main registers the button callback and creates
\* the tasks before the scheduler starts, and system_init runs afterwards in
\* systemTask; being of the highest priority, systemTask completes it before
\* any other task executes its first statement (no driver bring-up and no
\* service call precedes it).
C19_BringUpBeforeTasksRun ==
    /\ ~PlatformUp
          => \A t \in Tasks \ {"SYS"} : pc[t] \in {"absent", "start"}
    /\ ~PlatformUp
          => \A f \in Functions \ {"gpio_init", "buttons_init"} : calls[f] = 0
    /\ PlatformUp
          => /\ buttonCb = "buttonCallback"
             /\ mainPc = "scheduler"
             /\ \A t \in {"SYS", "FS", "AUDIO"} : pc[t] # "absent"

\* system_init has completed with the callback registered and the tasks
\* created before it, and the storage task has then made its first call
C19_Witness ==
    /\ PlatformUp
    /\ calls["buttons_init"] = 1
    /\ calls["sd_card_init"] = 1
    /\ calls["system_update"] = 1

\* the bring-up calls in each task's body
BringUpCalls ==
    [t \in Tasks |->
        CASE t = "SYS" -> {"system_init"}
          [] t = "FS" -> {"sd_card_init", "fs_init"}
          [] t = "AUDIO" -> {"audio_init"}
          [] t = "GUI" -> {"display_init", "gui_init"}]

\* the call each task body starts with
FirstCall ==
    [t \in Tasks |->
        CASE t = "SYS" -> "system_init"
          [] t = "FS" -> "sd_card_init"
          [] t = "AUDIO" -> "audio_init"
          [] t = "GUI" -> "display_init"]

\* C20: each task attempts its bring-up exactly once (a task that has left
\* its first statement has made its first bring-up call once, and no
\* bring-up call is ever made a second time), and a task that has terminated
\* after a failed bring-up stays terminated: nothing restarts it and it
\* makes no further bring-up or service call.
C20_BringUpOnceThenGone ==
    [][\A t \in Tasks :
         /\ \A f \in BringUpCalls[t] : calls'[f] <= 1
         /\ pc'[t] \notin {"absent", "start"} => calls'[FirstCall[t]] = 1
         /\ pc[t] = "deleted"
               => /\ pc'[t] = "deleted"
                  /\ \A f \in BringUpCalls[t] \cup {ServiceCall[t]} :
                        calls'[f] = calls[f]]_vars

\* the storage and audio tasks terminated at bring-up and the Supervisor has
\* run for fifty ticks since
C20_Witness ==
    /\ pc["FS"] = "deleted"
    /\ pc["AUDIO"] = "deleted"
    /\ calls["sd_card_init"] = 1
    /\ calls["audio_init"] = 1
    /\ calls["fs_update"] = 0
    /\ calls["audio_update"] = 0
    /\ U32Ge(xTickCount, U32(50))
    /\ calls["system_update"] >= 5

\* C21: if display_init fails guiTask terminates without calling gui_init
\* and without ever taking displayMutex (or calling gui_update); if it
\* succeeds gui_init is called exactly once, before the first gui_update.
C21_GuiLifecycle ==
    /\ (~hw.display /\ calls["display_init"] > 0)
          => /\ pc["GUI"] = "deleted"
             /\ calls["gui_init"] = 0
             /\ calls["gui_update"] = 0
             /\ holder["displayMutex"] # "GUI"
    /\ calls["gui_init"] <= 1
    /\ (hw.display /\ pc["GUI"] \in {"take", "update", "give", "delay"})
          => calls["gui_init"] = 1
    /\ calls["gui_update"] > 0 => (hw.display /\ calls["gui_init"] = 1)

\* the display came up and the loop has redrawn three times after the one
\* setup call
C21_Witness ==
    /\ hw.display
    /\ calls["display_init"] = 1
    /\ calls["gui_init"] = 1
    /\ calls["gui_update"] = 3

\* C22: the GUI task is created only when OS_CONFIG_ENABLE_GUI is non-zero;
\* when it is zero the other three tasks are still created, displayMutex is
\* never taken and gui_update (like display_init and gui_init) never runs.
C22_GuiOnlyIfEnabled ==
    /\ pc["GUI"] # "absent" => guiEnabled # 0
    /\ (guiEnabled # 0 /\ mainPc \in {"start_scheduler", "scheduler"})
          => pc["GUI"] # "absent"
    /\ guiEnabled = 0
          => /\ mainPc \in {"start_scheduler", "scheduler"}
                   => \A t \in {"SYS", "FS", "AUDIO"} : pc[t] # "absent"
             /\ holder["displayMutex"] \in {"null", "free"}
             /\ \A f \in {"display_init", "gui_init", "gui_update"} :
                   calls[f] = 0

\* a build without GUI in which the other three tasks are in their loops
C22_Witness ==
    /\ guiEnabled = 0
    /\ pc["GUI"] = "absent"
    /\ calls["system_update"] > 1
    /\ calls["fs_update"] > 0
    /\ calls["audio_update"] > 1

\* a * k for a small multiplier k, exactly, as three 16-bit limbs
ExactMul(a, k) ==
    LET lo == a[2] * k
        mid == a[1] * k + (lo \div Limb)
    IN  <<mid \div Limb, mid % Limb, lo % Limb>>

ExactLe(x, y) ==
    \/ x[1] < y[1]
    \/ x[1] = y[1] /\ x[2] < y[2]
    \/ x[1] = y[1] /\ x[2] = y[2] /\ x[3] <= y[3]

\* floor(idle * 100 / total) on the exact values, for 0 < total, idle <= total
ExactShare(idle, total) ==
    CHOOSE q \in 0 .. 100 :
        /\ ExactLe(ExactMul(total, q), ExactMul(idle, 100))
        /\ ~ExactLe(ExactMul(total, q + 1), ExactMul(idle, 100))

\* C23: the CPU figure of a recomputation is 100 - floor(idle * 100 / total)
\* on the exact counter values for all 32-bit counters with idle <= total,
\* and 0 when total is 0, when no task named IDLE is reported or when the
\* task-status buffer cannot be allocated.
C23_CpuFormulaExact ==
    probe.result # -1 =>
        LET stat == probe.input
            degenerate == \/ ~stat.mallocOk
                          \/ ~stat.idlePresent
                          \/ stat.total = U32(0)
        IN  /\ degenerate => probe.result = 0
            /\ (~degenerate /\ U32Ge(stat.total, stat.idle))
                  => probe.result = 100 - ExactShare(stat.idle, stat.total)

\* the sleep that ends an iteration of each task, in ticks
SleepOf(t) ==
    CASE t = "SYS" -> 10
      [] t = "FS" -> 50
      [] t = "AUDIO" -> 5
      [] t = "GUI" -> 16

\* a step of task t that makes its service call
Services(t) == calls'[ServiceCall[t]] # calls[ServiceCall[t]]

\* C24: every iteration of fsTask, audioTask and guiTask is: take the own
\* mutex, one service call, give the mutex, one sleep of 50, 5 and 16 ticks;
\* every iteration of systemTask is one system_update and a sleep of 10; the
\* steps of one task follow each other in this order, one iteration after
\* the other.
C24_IterationShape ==
    [][/\ \A t \in Tasks \ {"SYS"} :
            LET m == OwnMutex[t]
            IN  /\ (Steps(t) /\ pc[t] = "take")
                      => /\ pc'[t] = "update"
                         /\ holder[m] = "free" /\ holder'[m] = t
                         /\ ~Services(t)
                /\ (Steps(t) /\ pc[t] = "update")
                      => /\ pc'[t] = "give"
                         /\ holder[m] = t /\ holder'[m] = t
                         /\ calls'[ServiceCall[t]] = calls[ServiceCall[t]] + 1
                /\ (Steps(t) /\ pc[t] = "give")
                      => /\ pc'[t] = "delay"
                         /\ holder'[m] = "free"
                         /\ ~Services(t)
                /\ (Steps(t) /\ pc[t] = "delay")
                      => /\ pc'[t] = "take"
                         /\ delay'[t] = SleepOf(t)
                         /\ ~Services(t)
                /\ Services(t) => (Steps(t) /\ pc[t] = "update")
       /\ (Steps("SYS") /\ pc["SYS"] = "update")
             => /\ pc'["SYS"] = "delay"
                /\ calls'["system_update"] = calls["system_update"] + 1
       /\ (Steps("SYS") /\ pc["SYS"] = "delay")
             => /\ pc'["SYS"] = "update"
                /\ delay'["SYS"] = SleepOf("SYS")
                /\ ~Services("SYS")
       /\ Services("SYS") => (Steps("SYS") /\ pc["SYS"] = "update")]_vars

\* every task has completed two iterations and sleeps in its third wait
C24_Witness ==
    /\ calls["system_update"] >= 2
    /\ calls["fs_update"] = 2
    /\ calls["audio_update"] >= 2
    /\ calls["gui_update"] >= 2
    /\ \A t \in Tasks : delay[t] > 0

(***************************************************************************)
(* C25: reading the health figures is not atomic.  A reader of a lower     *)
(* priority that calls system_get_uptime, system_get_cpu_usage and         *)
(* system_get_free_heap one after another gets from each call the figure   *)
(* stored at that moment; the Supervisor can run between two of the calls, *)
(* and then the three figures come from different executions of            *)
(* system_update.  The figures are those of one execution whenever no      *)
(* system_update ran since the first call; C25_Witness is a snapshot whose *)
(* uptime is older than its free heap size.                                *)
(***************************************************************************)
Stored == <<systemUptime, cpuUtilization, freeHeapSize>>

Torn ==
    /\ reader.pc = "done"
    /\ reader.during[1] # reader.during[3]

C25_ReadsNotAtomic ==
    reader.pc # "none" =>
        /\ \A i \in 1..Len(reader.during) :
              /\ reader.during[i] <= calls["system_update"]
              /\ \A j \in i..Len(reader.during) :
                    reader.during[i] <= reader.during[j]
        /\ (\A i \in 1..Len(reader.during) :
                reader.during[i] = calls["system_update"])
           => \A i \in 1..Len(reader.figures) : reader.figures[i] = Stored[i]

C25_Witness ==
    /\ Torn
    /\ reader.during[1] < reader.during[3]
    /\ reader.during[3] = calls["system_update"]
    /\ reader.figures[3] = freeHeapSize
    /\ reader.figures[1] # systemUptime

(***************************************************************************)
(* C26: system_set_error always stores the code it is given, whatever the  *)
(* configuration, and calls blink_error_led with that code exactly when    *)
(* the enableErrorLed flag of the stored configuration is non-zero; no     *)
(* other step drives the indicator.                                        *)
(***************************************************************************)
C26_StoreAlwaysBlinkIfEnabled ==
    [][IF Len(faultLog') = Len(faultLog) + 1
       THEN LET error == faultLog'[Len(faultLog')]
            IN  /\ currentError' = error
                /\ IF sysConfig.enableErrorLed # 0
                   THEN /\ blinked' = Append(blinked, error)
                        /\ calls'["blink_error_led"] =
                               calls["blink_error_led"] + 1
                   ELSE /\ blinked' = blinked
                        /\ calls'["blink_error_led"] =
                               calls["blink_error_led"]
       ELSE /\ faultLog' = faultLog
            /\ blinked' = blinked
            /\ calls'["blink_error_led"] = calls["blink_error_led"]]_vars

C26_Witness ==
    /\ Len(faultLog) = 2
    /\ blinked = <<faultLog[2]>>
    /\ sysConfig.enableErrorLed # 0
    /\ currentError = faultLog[2]
    /\ currentError # faultLog[1]

(***************************************************************************)
(* C27: every call fsTask, audioTask and guiTask make into the driver of   *)
(* their peripheral, the bring-up calls sd_card_init, fs_init,             *)
(* audio_init, display_init and gui_init included, is made while the task  *)
(* holds the peripheral's mutex, so that none of them can fall inside the  *)
(* guarded section of an external caller of the same mutex.                *)
(***************************************************************************)
DriverCalls == [t \in Tasks |-> BringUpCalls[t] \cup {ServiceCall[t]}]

C27_DriverCallsUnderLock ==
    [][\A t \in Tasks \ {"SYS"} :
          \A f \in DriverCalls[t] :
              calls'[f] > calls[f] => holder[OwnMutex[t]] = t]_vars

(***************************************************************************)
(* C28: a handler of the GUI (gui_handle_button_press, _release,           *)
(* _long_press) called by buttonCallback never executes while guiTask is   *)
(* in its redraw, that is between taking displayMutex and the return of    *)
(* gui_update: the two exclude each other in every interleaving.           *)
(***************************************************************************)
InRedraw == pc["GUI"] = "update" /\ holder["displayMutex"] = "GUI"

C28_HandlerNeverDuringRedraw ==
    [][Len(handled') > Len(handled) => ~InRedraw]_vars

(***************************************************************************)
(* C29: buttonCallback forwards an event to a handler of the GUI only      *)
(* while guiTask exists and has called gui_init: never before gui_init,    *)
(* never after guiTask deleted itself on the failure of display_init, and  *)
(* never in a build without the GUI.                                       *)
(***************************************************************************)
C29_HandlerOnlyAfterGuiInit ==
    [][Len(handled') > Len(handled)
          => /\ guiEnabled # 0
             /\ Alive("GUI")
             /\ calls["gui_init"] > 0]_vars

(***************************************************************************)
(* C30: guiTask calls gui_update only if gui_init reported GUI_OK; when    *)
(* gui_init reports an error, gui_update is never called.                  *)
(***************************************************************************)
C30_RedrawOnlyAfterGuiInitOk == ~hw.gui => calls["gui_update"] = 0

C32_IntervalTestWrapSafe ==
    [][calls'["system_update"] > calls["system_update"]
          => (Len(recomputedAt') > Len(recomputedAt)
                 <=> elapsed >= PERFORMANCE_CHECK_INTERVAL)]_vars

\* the recomputation that followed the one before the wrap was made after
\* the wrap, a hundred system_update calls later
C32_Witness ==
    /\ Len(recomputedAt) = 1
    /\ U32Lt(recomputedAt[1], U32(PERFORMANCE_CHECK_INTERVAL))
    /\ calls["system_update"] >= 100
    /\ calls["calculate_cpu_usage"] = 1

\* C37: in the music player's main(), a failure of sd_card_init or of fs_init
\* records ERROR_FS_INIT_FAILED (fs_init is not called after a card failure),
\* and main() then creates neither the mutex nor the player task and never
\* starts the scheduler; a failure of audio_init or display_init records
\* nothing and does not keep main() from going on.
PlayerStorageOk == hw.sd /\ hw.fs

C37_PlayerStorageFailureStopsStartup ==
    /\ currentError \in {ERROR_NONE, ERROR_FS_INIT_FAILED}
    /\ ~hw.sd => calls["fs_init"] = 0
    /\ ~PlayerStorageOk =>
         /\ playerMain \notin {"display_init", "player_init",
                               "start_scheduler", "scheduler"}
         /\ ctxPc["MUSIC"] = "absent"
         /\ audioMutex = "null"
         /\ calls["display_init"] = 0
    /\ playerMain \in {"fatal_loop", "fault"} =>
         /\ ~PlayerStorageOk
         /\ currentError = ERROR_FS_INIT_FAILED
         /\ faultLog = <<ERROR_FS_INIT_FAILED>>
    /\ PlayerStorageOk =>
         /\ currentError = ERROR_NONE
         /\ faultLog = <<>>
         /\ playerMain \notin {"set_error", "fatal_loop", "fault"}

C37_Witness ==
    /\ playerMain = "fatal_loop"
    /\ hw.sd /\ ~hw.fs /\ ~hw.audio
    /\ calls["fs_init"] = 1
    /\ currentError = ERROR_FS_INIT_FAILED

\* C36: the volume stays within 0..100 and a multiple of 5 whatever the
\* volume buttons do, audio_set_volume is only called with a value within
\* 0..100, and a volume-up press at 100 or a volume-down press at 0 changes
\* nothing and returns without a call to the driver.
VolumeInRange(v) == v \in 0..100 /\ v % 5 = 0

AtVolumeLimit ==
    \/ playerEvent'.id = BUTTON_VOL_UP /\ currentVolume = 100
    \/ playerEvent'.id = BUTTON_VOL_DOWN /\ currentVolume = 0

C36_VolumeInRange ==
    /\ [](/\ VolumeInRange(currentVolume)
          /\ \A i \in 1..Len(driverCall) :
               driverCall[i].fn = "audio_set_volume"
                   => driverCall[i].value \in 0..100
          /\ ctxPc["BTN"] \in {"vol_take", "vol"}
                 => playerEvent.id \in VolumeButtons)
    /\ [][/\ ctxPc["BTN"] = "idle" /\ ctxPc'["BTN"] # "idle"
          /\ playerEvent'.kind = BUTTON_PRESSED
          /\ AtVolumeLimit
          => /\ ctxPc'["BTN"] = "return"
             /\ driverCall' = NoCall
             /\ UNCHANGED <<currentVolume, audioMutex, currentState,
                            currentPosition, currentDuration, songCount,
                            currentSongIndex>>]_vars
    /\ [][ctxPc["BTN"] = "return" /\ ctxPc'["BTN"] # "return"
          => /\ ctxPc'["BTN"] = "idle"
             /\ driverCall' = NoCall
             /\ UNCHANGED <<currentVolume, audioMutex>>]_vars

C36_Witness ==
    /\ ctxPc["BTN"] = "return"
    /\ playerEvent = [id |-> BUTTON_VOL_UP, kind |-> BUTTON_PRESSED]
    /\ currentVolume = 100
    /\ driverCall = NoCall

\* C35: every acquisition of the player's audioMutex is followed by its
\* release on every path, a failed play included: the holder's next statement
\* but one is the give, and a context outside its guarded sections holds
\* nothing.  The mutex is never taken by the context that holds it, play_song,
\* next_song and prev_song are entered only by a context that does not hold
\* it, and no context sleeps or returns while holding it.
GuardedBody == {"play_stop", "play_file", "pos_get", "pause", "resume",
                "stop", "vol"}

GuardedGive == {"play_give1", "play_give2", "pos_give", "give"}

TakePoints == {"play_take1", "play_take2", "pos_take", "pause_take",
               "resume_take", "stop_take", "vol_take"}

PlayFileReturns(status) ==
    \E c \in Contexts :
        /\ ctxPc[c] = "play_file" /\ ctxPc'[c] = "play_give2"
        /\ Len(driverCall') >= 1
        /\ driverCall'[1] = DriverCall("audio_play_file", status)

HandlerStepFor(id, kind) ==
    /\ playerEvent = [id |-> id, kind |-> kind]
    /\ ctxPc["BTN"] # "idle"
    /\ ctxPc'["BTN"] # ctxPc["BTN"]

PlaybackTransition ==
    \/ /\ currentState' = AUDIO_STATE_PLAYING
       /\ PlayFileReturns(AUDIO_OK)
    \/ /\ currentState = AUDIO_STATE_PLAYING
       /\ currentState' = AUDIO_STATE_PAUSED
       /\ HandlerStepFor(BUTTON_PLAY_PAUSE, BUTTON_PRESSED)
    \/ /\ currentState = AUDIO_STATE_PAUSED
       /\ currentState' = AUDIO_STATE_PLAYING
       /\ HandlerStepFor(BUTTON_PLAY_PAUSE, BUTTON_PRESSED)
    \/ /\ currentState' = AUDIO_STATE_STOPPED
       /\ currentPosition' = 0
       /\ HandlerStepFor(BUTTON_PLAY_PAUSE, BUTTON_LONG_PRESS)
    \/ /\ currentState' = AUDIO_STATE_STOPPED
       /\ PlayFileReturns(AUDIO_ERROR_IO)

C34_PlaybackTransitions ==
    /\ [][currentState' # currentState => PlaybackTransition]_vars
    /\ [][/\ ctxPc["BTN"] = "idle" /\ ctxPc'["BTN"] # "idle"
          /\ playerEvent' = [id |-> BUTTON_PLAY_PAUSE, kind |-> BUTTON_PRESSED]
          /\ currentState = AUDIO_STATE_STOPPED /\ songCount = 0
          => /\ ctxPc'["BTN"] = "return"
             /\ driverCall' = NoCall
             /\ UNCHANGED <<currentState, currentPosition, currentDuration,
                            currentSongIndex, songCount, currentVolume,
                            audioMutex>>]_vars
    /\ [](ctxPc["BTN"] \in {"pause_take", "pause", "resume_take", "resume"}
              => playerEvent = [id |-> BUTTON_PLAY_PAUSE,
                                kind |-> BUTTON_PRESSED])

\* C33: with songCount > 0, currentSongIndex stays within 0..songCount-1
\* whatever the interleaving of next and previous button events and of the
\* player task's automatic advance; next goes from the last song to the
\* first, previous from the first to the last; with songCount = 0 both
\* return and leave the index and the playback state as they are.
SongStep(c, at) == ctxPc[c] = at /\ ctxPc'[c] # at

IndexInRange == songCount > 0 => currentSongIndex \in 0..(songCount - 1)

EmptyPlaylistNoChange ==
    [][\A c \in Contexts :
         (SongStep(c, "next") \/ SongStep(c, "prev")) /\ songCount = 0
             => /\ ctxPc'[c] = ctxRet[c]
                /\ UNCHANGED <<currentSongIndex, currentState, audioMutex>>
                /\ driverCall' = NoCall]_vars

WrapsAtEnds ==
    [][\A c \in Contexts :
         /\ SongStep(c, "next_store") /\ ctxTmp[c] = currentSongIndex
                => currentSongIndex' =
                       IF currentSongIndex = songCount - 1 THEN 0
                       ELSE currentSongIndex + 1
         /\ (SongStep(c, "prev_dec") \/ SongStep(c, "prev_wrap"))
            /\ ctxTmp[c] = currentSongIndex
                => currentSongIndex' =
                       IF currentSongIndex = 0 THEN songCount - 1
                       ELSE currentSongIndex - 1]_vars

C33_IndexStaysInRange ==
    /\ []IndexInRange
    /\ EmptyPlaylistNoChange
    /\ WrapsAtEnds

====
